---- MODULE Spec2Model ----
(***************************************************************************)
(* Verification model of the qiservice LLM gateway request pipeline.       *)
(*                                                                         *)
(* The module holds several specifications over one set of variables:      *)
(*   SpecRR     router and round-robin key selector                        *)
(*   SpecGate   AuthMiddleware (credential lookup and quota gate)          *)
(*   SpecSSE    Anthropic-egress slow path (provider goroutine, channels,  *)
(*              SSE synthesis)                                             *)
(*   SpecSnoop  UsageSnooper.Read over a chunked upstream body             *)
(*   SpecProxy  fast-path body rewrite (model override, Content-Length)    *)
(*   SpecAdapter  canonical <-> Anthropic message conversion               *)
(*   SpecRec    exit paths of the two ingress handlers and the deferred    *)
(*              usage recorder, for concurrent requests of one principal   *)
(*   SpecChat   ChatCompletionsHandler streaming loop and its provider     *)
(*              goroutine                                                  *)
(*   SpecUpErr  slow path: what the client is answered for an upstream     *)
(*              reply                                                      *)
(*   SpecPeek   reading the request body to extract the model              *)
(*   SpecShutdown  SpecRec with the server process ending                  *)
(*   SpecStream  the provider goroutine with either ingress's stream loop  *)
(*   SpecFrames  a provider scanning the lines of an upstream SSE body     *)
(*   SpecHeaders  the headers handleReverseProxy sends upstream            *)
(*   SpecQuota  SpecRec with the admission of AuthMiddleware before each   *)
(*              request of the principal                                   *)
(* Each specification leaves the variables of the other parts at their     *)
(* idle values.                                                            *)
(***************************************************************************)
EXTENDS Integers, Sequences, FiniteSets, TLC

\* ------------------------------------------------------------------------
\* Bounds
\* ------------------------------------------------------------------------
\* number of pipeline requests in flight in SpecRR
MaxReqs == 3
\* largest upstream key pool of a Service
MaxPool == 3
\* number of UpdateServicesHandler calls in SpecRR
MaxReconfig == 1

\* a finite quota a principal can be given
QuotaLimit == 2
\* cap on used_amount in SpecGate
MaxUsed == 3

\* number of canonical chunks a provider sends in SpecSSE
MaxChunks == 3

\* number of token fields in an upstream body in SpecSnoop
MaxFields == 3

\* number of canonical messages of a request in SpecAdapter
MaxCanonMsgs == 3
\* number of Anthropic messages of a request in SpecAdapter
MaxAnthMsgs == 2

\* number of concurrent handler calls in SpecRec
MaxCalls == 2
\* number of chunks a slow-path stream forwards in SpecRec
MaxStreamed == 1

\* number of lines of an upstream SSE body in SpecFrames
MaxFrames == 3

VARIABLES
    build,      \* which revision of the handlers is compiled
    arrays,     \* backing arrays of ServiceConfig ever assigned to config.Services
    config,     \* config.Services: index of the current backing array
    req,        \* per-request handler state (locals and position)
    users,      \* table users: id -> row, or NoUser
    apikeys,    \* table api_keys: key -> row
    sessions,   \* session tokens issued by UserLoginHandler: token -> claims
    last,       \* the request AuthMiddleware handled last and its outcome
    provPC,     \* position of the provider goroutine (StreamChatCompletion)
    provErr,    \* what StreamChatCompletion returned: "none" yet, "nil", "err"
    outputChan, \* unbuffered channel of canonical chunks: blocked send, closed flag
    errChan,    \* unbuffered error channel: blocked send, closed flag, handler's nil flag
    ctxDone,    \* c.Request.Context() is cancelled (client gone)
    streamPC,   \* position of the handler in the Anthropic-egress streaming branch
    blockIndex, \* index of the current content block
    inToolUse,  \* the current block is a tool_use block
    events,     \* SSE events written to the client, in order
    nSent,      \* chunks the provider has sent
    sent,       \* the canonical chunks the provider has sent on outputChan, in order
    snBody,     \* the complete upstream response body behind the UsageSnooper
    snPos,      \* bytes of snBody the proxy has read so far
    tokensIn,   \* *s.tokensIn, the handler's prompt counter
    tokensOut,  \* *s.tokensOut, the handler's completion counter
    snSplit,    \* some read boundary so far fell inside a token field
    recorded,   \* the usage the deferred recorder passed to stats.Record
    pxPC,       \* position of the handler in SpecProxy
    pxIngress,  \* the ingress surface of the request: "openai" or "anthropic"
    pxSvc,      \* the Service configured under the request's model name
    pxBody,     \* c.Request.Body: top-level members of the JSON object, in order
    pxLen,      \* c.Request.ContentLength / the Content-Length header
    pxOut,      \* the request handed upstream
    pxKeyed,    \* matchedService.GetAPIKey() has been called for the request
    pxResp,     \* the response the handler itself wrote (NoResponse: none)
    cvPC,       \* position of a protocol conversion: "idle", "start", "done"
    cvVia,      \* the function that converted: ChatCompletion, StreamChatCompletion, AnthropicMessagesHandler
    cvCanon,    \* canonical messages (provider.Message), input or result
    cvAnth,     \* Anthropic request (System, Messages, ...), input or result
    cvTools,    \* req.Tools of the canonical request
    calls,      \* the locals of each running ingress handler call
    usedAmount, \* users.used_amount of the principal with id 1
    recordQueue,\* arguments of stats.Record calls whose goroutine has not run yet
    requestLogs,\* rows of the request log table
    upPC,       \* position of a slow-path call in SpecUpErr
    upCall,     \* its ingress, provider and req.Stream
    upReply,    \* the upstream's HTTP reply: status, body, whether the body decodes
    upErr,      \* the error the provider returned (NoError: nil)
    upResp,     \* what the handler answered the client
    pkPC,       \* position of a handler in SpecPeek
    pkReq,      \* the incoming request: ingress, body, what reading and parsing it gives
    pkCtx,      \* c.Request.Body as re-attached, reads of the wire, status, routing
    process,    \* the server process: "running" or "exited"
    frames,     \* the lines of the upstream's SSE body
    scanPos,    \* lines of it the provider's scanner has consumed
    hdPC,       \* position of each of two fast-path requests: "start", "401", "proxied"
    hdClient,   \* the headers each of the two requests arrived with
    hdProtocol, \* the upstream protocol of the matched Service
    hdKey,      \* the upstream key GetAPIKey returned
    hdUp        \* the headers of each outbound request after the Director

rrVars == <<build, arrays, config, req>>
gateVars == <<users, apikeys, sessions, last>>
sseVars == <<provPC, provErr, outputChan, errChan, ctxDone, streamPC, blockIndex,
             inToolUse, events, nSent, sent>>

snoopVars == <<snBody, snPos, tokensIn, tokensOut, snSplit, recorded>>
proxyVars == <<pxPC, pxIngress, pxSvc, pxBody, pxLen, pxOut, pxKeyed, pxResp>>
convVars == <<cvPC, cvVia, cvCanon, cvAnth, cvTools>>
\* the parts added after the proxy decision
recVars == <<calls, usedAmount, recordQueue, requestLogs>>
upVars == <<upPC, upCall, upReply, upErr, upResp>>
peekVars == <<pkPC, pkReq, pkCtx>>
procVars == <<process>>
scanVars == <<frames, scanPos>>
hdrVars == <<hdPC, hdClient, hdProtocol, hdKey, hdUp>>
restVars == <<convVars, recVars, upVars, peekVars, procVars, scanVars, hdrVars>>

vars == <<build, arrays, config, req, users, apikeys, sessions, last,
          provPC, provErr, outputChan, errChan, ctxDone, streamPC, blockIndex,
          inToolUse, events, nSent, sent,
          snBody, snPos, tokensIn, tokensOut, snSplit, recorded,
          pxPC, pxIngress, pxSvc, pxBody, pxLen, pxOut, pxKeyed, pxResp,
          cvPC, cvVia, cvCanon, cvAnth, cvTools,
          calls, usedAmount, recordQueue, requestLogs,
          upPC, upCall, upReply, upErr, upResp,
          pkPC, pkReq, pkCtx, process, frames, scanPos,
          hdPC, hdClient, hdProtocol, hdKey, hdUp>>

\* ------------------------------------------------------------------------
\* Router and key selector
\* ------------------------------------------------------------------------
getServiceProtocol_GeminiAsOpenAI(serviceType) ==
    CASE serviceType = "anthropic" -> "anthropic"
      [] OTHER -> "openai"

getServiceProtocol(serviceType) ==
    CASE serviceType = "anthropic" -> "anthropic"
      [] serviceType = "gemini" -> "gemini"
      [] OTHER -> "openai"

Builds == {"part_001", "handler.go"}
ModelNames == {"m1", "m2"}
NoModel == "nope"
NoPtr == [arr |-> 0, i |-> 0]

\* api_keys of a Service: keys are numbered by their position in the pool
Pool(k) == [j \in 1..k |-> j]

ServiceConfig(name, k) ==
    [Name |-> name, APIKey |-> 0, APIKeys |-> Pool(k), keyCounter |-> 0,
     Type |-> "openai", BaseURL |-> "u0", ModelName |-> ""]

\* Service sets the gateway can start with: one or two Services
ServiceSets ==
    { <<ServiceConfig("m1", k)>> : k \in 0..MaxPool } \cup
    { <<ServiceConfig("m1", k), ServiceConfig("m2", 1)>> : k \in 1..MaxPool }

\* Service sets an administrator posts to UpdateServicesHandler
NewServiceSets ==
    { <<[ServiceConfig("m1", MaxPool) EXCEPT !.Type = "anthropic", !.BaseURL = "u1",
                                             !.ModelName = "t1"]>>,
      <<ServiceConfig("m2", 1),
        [ServiceConfig("m1", 1) EXCEPT !.Type = "gemini", !.BaseURL = "u2"]>> }

\* atomic.AddUint64(&s.keyCounter, 1): the value after the increment
AtomicAddUint64(counter) == counter + 1

GetAPIKeyIndex_OffByOne(after, k) == after % k

\* GetAPIKey: idx := atomic.AddUint64(&s.keyCounter, 1) - 1 ; s.APIKeys[idx % len]
GetAPIKeyIndex(after, k) == (after - 1) % k

\* the ServiceConfig value a pointer designates
Deref(p) == arrays[p.arr][p.i]

\* index of the first Service whose Name equals model, 0 when there is none
FirstMatch(svcs, model) ==
    IF \E i \in 1..Len(svcs) : svcs[i].Name = model
    THEN CHOOSE i \in 1..Len(svcs) :
            /\ svcs[i].Name = model
            /\ \A j \in 1..(i - 1) : svcs[j].Name # model
    ELSE 0

IdleReq ==
    [pc |-> "start", entry |-> NoPtr, shared |-> FALSE,
     val |-> ServiceConfig(NoModel, 0),
     after |-> 0, idx |-> 0, key |-> 0, status |-> 0,
     model |-> "", protocol |-> "", baseURL |-> "", target |-> ""]

IdleRR ==
    /\ build = "part_001"
    /\ arrays = <<<<ServiceConfig("m1", 1)>>>>
    /\ config = 1
    /\ req = [r \in 1..MaxReqs |-> IdleReq]

\* ------------------------------------------------------------------------
\* Auth / quota gate: state
\* ------------------------------------------------------------------------
RoleSuperAdmin == "super_admin"
RoleAdmin == "admin"
RoleUser == "user"
Roles == {RoleSuperAdmin, RoleAdmin, RoleUser}

UserIDs == {1}
NoUser == [ID |-> 0, Role |-> "", Quota |-> 0, UsedAmount |-> 0]
\* negative quota: unlimited
Quotas == {-1, 0, QuotaLimit}

KeyOf(u) == IF u = 1 THEN "sk-1" ELSE "sk-2"
TokenOf(u) == IF u = 1 THEN "jwt-1" ELSE "jwt-2"
APIKeyStrings == { KeyOf(u) : u \in UserIDs }
SessionTokens == { TokenOf(u) : u \in UserIDs }
Tokens == APIKeyStrings \cup SessionTokens \cup {"bad"}
NoClaims == [UserID |-> 0, Role |-> ""]

NoTables == [users |-> << >>, apikeys |-> << >>, sessions |-> << >>]

\* db: the tables as AuthMiddleware read them
NoOutcome ==
    [path |-> "", bearer |-> "", xkey |-> "", verdict |-> "none", via |-> "",
     userID |-> 0, role |-> "", db |-> NoTables]

IdleGate ==
    /\ users = [u \in UserIDs |-> NoUser]
    /\ apikeys = [k \in APIKeyStrings |-> [UserID |-> 0, IsActive |-> FALSE]]
    /\ sessions = [t \in SessionTokens |-> NoClaims]
    /\ last = NoOutcome

\* ------------------------------------------------------------------------
\* Anthropic-egress slow path: state
\* ------------------------------------------------------------------------
OpenChan == [buf |-> << >>, closed |-> FALSE, nil |-> FALSE]

IdleSSE ==
    /\ provPC = "connect"
    /\ provErr = "none"
    /\ outputChan = OpenChan
    /\ errChan = OpenChan
    /\ ctxDone = FALSE
    /\ streamPC = "start"
    /\ blockIndex = 0
    /\ inToolUse = FALSE
    /\ events = << >>
    /\ nSent = 0
    /\ sent = << >>

\* no upstream body is being relayed
NoRecord == [PromptTokens |-> -1, CompletionTokens |-> -1]
IdleSnoop ==
    /\ snBody = << >>
    /\ snPos = 0
    /\ tokensIn = 0
    /\ tokensOut = 0
    /\ snSplit = FALSE
    /\ recorded = NoRecord

\* no request is on the proxy decision
NoService == [Name |-> "", Type |-> "", ModelName |-> ""]
NoOutbound == [path |-> "", model |-> "", body |-> << >>, contentLength |-> 0]
\* a JSON error response: "error" is an object (with type and code) or a string
Response(status, errorKind, type, code) ==
    [status |-> status, error |-> errorKind, type |-> type, code |-> code]
NoResponse == Response(0, "", "", "")
IdleProxy ==
    /\ pxPC = "idle"
    /\ pxIngress = ""
    /\ pxSvc = NoService
    /\ pxBody = << >>
    /\ pxLen = 0
    /\ pxOut = NoOutbound
    /\ pxKeyed = FALSE
    /\ pxResp = NoResponse

\* no conversion is running
NoAnthropicRequest == [System |-> [kind |-> "nil", text |-> << >>, blocks |-> << >>],
                       Messages |-> << >>, MaxTokens |-> 0, Stream |-> FALSE,
                       Tools |-> << >>]
IdleConv ==
    /\ cvPC = "idle"
    /\ cvVia = ""
    /\ cvCanon = << >>
    /\ cvAnth = NoAnthropicRequest
    /\ cvTools = << >>

\* no ingress handler call is running
IdleRec ==
    /\ calls = << >>
    /\ usedAmount = 0
    /\ recordQueue = {}
    /\ requestLogs = {}

\* a provider returned no error
NoError == [provider |-> "", what |-> "", status |-> 0, body |-> << >>, ellipsis |-> FALSE]
\* the handler has written nothing
NoAnswer == [status |-> 0, message |-> NoError, events |-> 0]

\* no slow-path call is waiting for its upstream
IdleUp ==
    /\ upPC = "idle"
    /\ upCall = [ingress |-> "", provider |-> "", stream |-> FALSE]
    /\ upReply = [status |-> 0, body |-> << >>, decodes |-> FALSE]
    /\ upErr = NoError
    /\ upResp = NoAnswer

NoBody == [size |-> -1, bytes |-> ""]
\* what a handler holds before it has read anything
FreshCtx == [attached |-> NoBody, reads |-> 0, status |-> 0, routed |-> FALSE,
             downstream |-> NoBody]

\* no handler is peeking a body
IdlePeek ==
    /\ pkPC = "idle"
    /\ pkReq = [ingress |-> "", body |-> NoBody, readable |-> FALSE, json |-> FALSE,
                known |-> FALSE]
    /\ pkCtx = FreshCtx

\* the server is up
IdleProc == process = "running"

\* no upstream body is being scanned
IdleScan == frames = << >> /\ scanPos = 0

IdleHdr ==
    /\ hdPC = << >>
    /\ hdClient = << >>
    /\ hdProtocol = ""
    /\ hdKey = ""
    /\ hdUp = << >>

IdleRest == IdleConv /\ IdleRec /\ IdleUp /\ IdlePeek /\ IdleProc /\ IdleScan /\ IdleHdr

InitRR ==
    /\ build \in Builds
    /\ \E s \in ServiceSets : arrays = <<s>>
    /\ config = 1
    /\ req = [r \in 1..MaxReqs |-> IdleReq]
    /\ IdleGate
    /\ IdleSSE
    /\ IdleSnoop
    /\ IdleProxy
    /\ IdleRest

\* "2. Find Service": the scan of config.Services under configMutex.RLock, the
\* same code in ChatCompletionsHandler and in AnthropicMessagesHandler.
\* part_001 keeps a pointer to the element of config.Services; the revision in
\* handler.go copies the element (val := s; matchedService = &val).
FindService(r, model) ==
    /\ req[r].pc = "start"
    /\ IF r = 1 THEN TRUE ELSE req[r - 1].pc # "start"
    /\ LET i == FirstMatch(arrays[config], model) IN
       IF i = 0
       THEN req' = [req EXCEPT ![r].pc = "done", ![r].status = 404, ![r].model = model]
       ELSE req' = [req EXCEPT ![r].pc = "found",
                               ![r].model = model,
                               ![r].entry = [arr |-> config, i |-> i],
                               ![r].shared = (build = "part_001"),
                               ![r].val = arrays[config][i]]
    /\ UNCHANGED <<build, arrays, config>>
    /\ UNCHANGED <<gateVars, sseVars, snoopVars, proxyVars, restVars>>

\* a request that looks the Service up again in config.Services at each use
MatchedService_Reresolve(r) ==
    LET i == FirstMatch(arrays[config], req[r].model) IN
    IF i # 0 THEN arrays[config][i]
    ELSE IF req[r].shared THEN Deref(req[r].entry) ELSE req[r].val

\* *matchedService: the element of the slice the request resolved (part_001)
\* or the request's copy of it (handler.go)
MatchedService(r) == IF req[r].shared THEN Deref(req[r].entry) ELSE req[r].val

\* upstreamProtocol := getServiceProtocol(matchedService.Type)
\* selectedAPIKey := matchedService.GetAPIKey()
GetAPIKey(r) ==
    /\ req[r].pc = "found"
    /\ LET s == MatchedService(r)
           k == Len(s.APIKeys)
           after == AtomicAddUint64(s.keyCounter)
       IN
       IF k > 0
       THEN /\ req' = [req EXCEPT ![r].pc = "selected",
                                  ![r].protocol = getServiceProtocol(s.Type),
                                  ![r].after = after,
                                  ![r].idx = GetAPIKeyIndex(after, k),
                                  ![r].key = s.APIKeys[GetAPIKeyIndex(after, k) + 1],
                                  ![r].val = IF req[r].shared THEN @
                                             ELSE [@ EXCEPT !.keyCounter = after]]
            /\ arrays' = IF req[r].shared
                         THEN [arrays EXCEPT ![req[r].entry.arr][req[r].entry.i].keyCounter = after]
                         ELSE arrays
       ELSE /\ req' = [req EXCEPT ![r].pc = "selected", ![r].key = s.APIKey,
                                  ![r].protocol = getServiceProtocol(s.Type)]
            /\ UNCHANGED arrays
    /\ UNCHANGED <<build, config>>
    /\ UNCHANGED <<gateVars, sseVars, snoopVars, proxyVars, restVars>>

\* the request leaves for matchedService.BaseURL with the selected key and
\* matchedService.ModelName as its model
Dispatch(r) ==
    /\ req[r].pc = "selected"
    /\ req' = [req EXCEPT ![r].pc = "done", ![r].status = 200,
                          ![r].baseURL = MatchedService(r).BaseURL,
                          ![r].target = MatchedService(r).ModelName]
    /\ UNCHANGED <<build, arrays, config>>
    /\ UNCHANGED <<gateVars, sseVars, snoopVars, proxyVars, restVars>>

\* UpdateServicesHandler: config.Services = newServices under configMutex.Lock
UpdateServicesHandler(newServices) ==
    /\ Len(arrays) <= MaxReconfig
    /\ arrays' = Append(arrays, newServices)
    /\ config' = Len(arrays) + 1
    /\ UNCHANGED <<build, req>>
    /\ UNCHANGED <<gateVars, sseVars, snoopVars, proxyVars, restVars>>

NextRR ==
    \/ \E r \in 1..MaxReqs, m \in ModelNames \cup {NoModel} : FindService(r, m)
    \/ \E r \in 1..MaxReqs : GetAPIKey(r)
    \/ \E r \in 1..MaxReqs : Dispatch(r)
    \/ \E s \in NewServiceSets : UpdateServicesHandler(s)

SpecRR == InitRR /\ [][NextRR]_vars

\* ------------------------------------------------------------------------
\* Anthropic-egress slow path: provider goroutine, channels, SSE synthesis
\* ------------------------------------------------------------------------
\* delta.ToolCalls[0] of a chunk: ID and Function.Arguments ("" when absent)
NoToolCall == [present |-> FALSE, ID |-> "", Arguments |-> ""]
ToolCallFragments ==
    { [present |-> TRUE, ID |-> id, Arguments |-> a] : id \in {"", "a", "b"}, a \in {"", "j"} }

\* canonical stream chunks: no choices, or Choices[0].Delta with Content and ToolCalls
NoChoices == [choices |-> 0, Content |-> "", tc |-> NoToolCall]
Chunks ==
    {NoChoices} \cup
    { [choices |-> 1, Content |-> c, tc |-> t] :
         c \in {"", "t"}, t \in ToolCallFragments \cup {NoToolCall} }

Ev(name, index, kind) == [ev |-> name, index |-> index, kind |-> kind]

\* content_block_start of a tool_use block; the block's id (and its name) are
\* copied from the fragment that opens it
ToolUseStart(index, id) ==
    [ev |-> "content_block_start", index |-> index, kind |-> "tool_use", id |-> id]

\* Case A without the switch back from a tool block
CaseA_NoSwitch(chunk, st) ==
    IF chunk.Content # ""
    THEN [st EXCEPT !.ev = @ \o <<Ev("content_block_delta", st.blockIndex, "text_delta")>>]
    ELSE st

\* Case A of the stream callback: delta.Content != ""
CaseA(chunk, st) ==
    IF chunk.Content # ""
    THEN LET closed == IF st.inToolUse
                       THEN [ev |-> st.ev \o <<Ev("content_block_stop", st.blockIndex, ""),
                                               Ev("content_block_start", st.blockIndex + 1, "text")>>,
                             blockIndex |-> st.blockIndex + 1,
                             inToolUse |-> FALSE]
                       ELSE st
         IN  [closed EXCEPT !.ev = @ \o <<Ev("content_block_delta", closed.blockIndex, "text_delta")>>]
    ELSE st

\* Case B of the stream callback: len(delta.ToolCalls) > 0
CaseB(chunk, st) ==
    IF chunk.tc.present
    THEN LET opened ==
                IF ~st.inToolUse \/ chunk.tc.ID # ""
                THEN LET closed ==
                            IF (~st.inToolUse /\ st.blockIndex = 0)
                               \/ (st.inToolUse /\ chunk.tc.ID # "")
                            THEN [st EXCEPT !.ev = @ \o <<Ev("content_block_stop", st.blockIndex, "")>>,
                                            !.blockIndex = @ + 1]
                            ELSE st
                     IN  [ev |-> closed.ev \o <<ToolUseStart(closed.blockIndex, chunk.tc.ID)>>,
                          blockIndex |-> closed.blockIndex,
                          inToolUse |-> TRUE]
                ELSE st
         IN  IF chunk.tc.Arguments # ""
             THEN [opened EXCEPT !.ev = @ \o <<Ev("content_block_delta", opened.blockIndex,
                                                 "input_json_delta")>>]
             ELSE opened
    ELSE st

\* one canonical chunk through the callback: the events written and the new
\* blockIndex and inToolUse
EmitChunk(chunk, bi, itu) ==
    LET st0 == [ev |-> << >>, blockIndex |-> bi, inToolUse |-> itu] IN
    IF chunk.choices > 0 THEN CaseB(chunk, CaseA(chunk, st0)) ELSE st0

\* the events written when outputChan is closed
FinalEvents_NoStop(bi) ==
    <<Ev("message_delta", 0, "end_turn"), Ev("message_stop", 0, "")>>

FinalEvents(bi) ==
    <<Ev("content_block_stop", bi, ""), Ev("message_delta", 0, "end_turn"),
      Ev("message_stop", 0, "")>>

\* provider: http request answered; an error is returned only from here
ProviderConnect(ok) ==
    /\ provPC = "connect"
    /\ provPC' = IF ok THEN "scan" ELSE "sendErr"
    /\ provErr' = IF ok THEN provErr ELSE "err"
    /\ errChan' = IF ok THEN errChan ELSE [errChan EXCEPT !.buf = <<"err">>]
    /\ UNCHANGED <<outputChan, ctxDone, streamPC, blockIndex, inToolUse, events, nSent, sent>>
    /\ UNCHANGED <<rrVars, gateVars, snoopVars, proxyVars, restVars>>

\* provider: outputChan <- chunk (blocks until the handler receives)
ProviderSend(chunk) ==
    /\ provPC = "scan"
    /\ nSent < MaxChunks
    /\ provPC' = "send"
    /\ outputChan' = [outputChan EXCEPT !.buf = <<chunk>>]
    /\ nSent' = nSent + 1
    /\ sent' = Append(sent, chunk)
    /\ UNCHANGED <<provErr, errChan, ctxDone, streamPC, blockIndex, inToolUse, events>>
    /\ UNCHANGED <<rrVars, gateVars, snoopVars, proxyVars, restVars>>

\* provider: the scan loop ends, StreamChatCompletion returns nil
ProviderReturn ==
    /\ provPC = "scan"
    /\ provPC' = "closeErr"
    /\ provErr' = "nil"
    /\ UNCHANGED <<outputChan, errChan, ctxDone, streamPC, blockIndex, inToolUse,
                   events, nSent, sent>>
    /\ UNCHANGED <<rrVars, gateVars, snoopVars, proxyVars, restVars>>

\* goroutine exit: the deferred close(errChan) runs first
ProviderCloseErrChan ==
    /\ provPC = "closeErr"
    /\ provPC' = "closeOut"
    /\ errChan' = [errChan EXCEPT !.closed = TRUE]
    /\ UNCHANGED <<provErr, outputChan, ctxDone, streamPC, blockIndex, inToolUse, events, nSent, sent>>
    /\ UNCHANGED <<rrVars, gateVars, snoopVars, proxyVars, restVars>>

\* goroutine exit: the deferred close(outputChan) runs last
ProviderCloseOutputChan ==
    /\ provPC = "closeOut"
    /\ provPC' = "exited"
    /\ outputChan' = [outputChan EXCEPT !.closed = TRUE]
    /\ UNCHANGED <<provErr, errChan, ctxDone, streamPC, blockIndex, inToolUse, events, nSent, sent>>
    /\ UNCHANGED <<rrVars, gateVars, snoopVars, proxyVars, restVars>>

\* an unbuffered channel after its pending value has been received
Receive_Keep(ch) == ch

Receive(ch) == [ch EXCEPT !.buf = << >>]

\* handler: message_start and the pre-opened text block at index 0
WriteMessageStart ==
    /\ streamPC = "start"
    /\ streamPC' = "stream"
    /\ events' = <<Ev("message_start", 0, ""), Ev("content_block_start", 0, "text")>>
    /\ UNCHANGED <<provErr, provPC, outputChan, errChan, ctxDone, blockIndex, inToolUse, nSent, sent>>
    /\ UNCHANGED <<rrVars, gateVars, snoopVars, proxyVars, restVars>>

\* select: case chunk, ok := <-outputChan with ok
RecvChunk ==
    /\ streamPC = "stream"
    /\ outputChan.buf # << >>
    /\ LET out == EmitChunk(outputChan.buf[1], blockIndex, inToolUse) IN
       /\ events' = events \o out.ev
       /\ blockIndex' = out.blockIndex
       /\ inToolUse' = out.inToolUse
    /\ outputChan' = Receive(outputChan)
    /\ provPC' = "scan"
    /\ UNCHANGED <<provErr, errChan, ctxDone, streamPC, nSent, sent>>
    /\ UNCHANGED <<rrVars, gateVars, snoopVars, proxyVars, restVars>>

\* select: case chunk, ok := <-outputChan with !ok
RecvOutputClosed ==
    /\ streamPC = "stream"
    /\ outputChan.closed
    /\ events' = events \o FinalEvents(blockIndex)
    /\ streamPC' = "returned"
    /\ UNCHANGED <<provErr, provPC, outputChan, errChan, ctxDone, blockIndex, inToolUse, nSent, sent>>
    /\ UNCHANGED <<rrVars, gateVars, snoopVars, proxyVars, restVars>>

\* select: case err, ok := <-errChan with ok
RecvErr ==
    /\ streamPC = "stream"
    /\ ~errChan.nil
    /\ errChan.buf # << >>
    /\ errChan' = [errChan EXCEPT !.buf = << >>]
    /\ provPC' = "closeErr"
    /\ streamPC' = "returned"
    /\ UNCHANGED <<provErr, outputChan, ctxDone, blockIndex, inToolUse, events, nSent, sent>>
    /\ UNCHANGED <<rrVars, gateVars, snoopVars, proxyVars, restVars>>

\* select: case err, ok := <-errChan with !ok: errChan = nil, keep streaming
RecvErrClosed ==
    /\ streamPC = "stream"
    /\ ~errChan.nil
    /\ errChan.closed
    /\ errChan' = [errChan EXCEPT !.nil = TRUE]
    /\ UNCHANGED <<provErr, provPC, outputChan, ctxDone, streamPC, blockIndex, inToolUse,
                   events, nSent, sent>>
    /\ UNCHANGED <<rrVars, gateVars, snoopVars, proxyVars, restVars>>

\* select: case <-c.Request.Context().Done()
RecvCtxDone ==
    /\ streamPC = "stream"
    /\ ctxDone
    /\ streamPC' = "returned"
    /\ UNCHANGED <<provErr, provPC, outputChan, errChan, ctxDone, blockIndex, inToolUse,
                   events, nSent, sent>>
    /\ UNCHANGED <<rrVars, gateVars, snoopVars, proxyVars, restVars>>

\* the client closes the connection while the handler runs
ClientDisconnect ==
    /\ streamPC # "returned"
    /\ ~ctxDone
    /\ ctxDone' = TRUE
    /\ UNCHANGED <<provErr, provPC, outputChan, errChan, streamPC, blockIndex, inToolUse,
                   events, nSent, sent>>
    /\ UNCHANGED <<rrVars, gateVars, snoopVars, proxyVars, restVars>>

InitSSE == IdleSSE /\ IdleRR /\ IdleGate /\ IdleSnoop /\ IdleProxy /\ IdleRest

ProviderStep ==
    \/ \E ok \in BOOLEAN : ProviderConnect(ok)
    \/ \E chunk \in Chunks : ProviderSend(chunk)
    \/ ProviderReturn
    \/ ProviderCloseErrChan
    \/ ProviderCloseOutputChan

HandlerStep ==
    \/ WriteMessageStart
    \/ RecvChunk
    \/ RecvOutputClosed
    \/ RecvErr
    \/ RecvErrClosed
    \/ RecvCtxDone

NextSSE == ProviderStep \/ HandlerStep \/ ClientDisconnect

SpecSSE == InitSSE /\ [][NextSSE]_vars

\* the Go scheduler keeps running the handler and the provider goroutine; the
\* upstream body ends (the provider does not scan forever)
SpecSSEFair ==
    /\ SpecSSE
    /\ WF_vars(HandlerStep)
    /\ WF_vars(ProviderReturn \/ ProviderCloseErrChan \/ ProviderCloseOutputChan)

\* ------------------------------------------------------------------------
\* Properties of the key selector (SpecRR)
\* ------------------------------------------------------------------------
\* the request has taken a key from a non-empty pool
Selected(r) == req[r].pc \in {"selected", "done"} /\ req[r].after > 0

\* the ServiceConfig object whose counter the request advanced
Obj(r) == IF req[r].shared
          THEN <<"cfg", req[r].entry.arr, req[r].entry.i>>
          ELSE <<"val", r, 0>>

ObjCounter(r) == IF req[r].shared THEN Deref(req[r].entry).keyCounter
                 ELSE req[r].val.keyCounter

PoolOf(r) == arrays[req[r].entry.arr][req[r].entry.i].APIKeys

CeilDiv(n, k) == (n + k - 1) \div k

\* C1: GetAPIKey on a Service with K >= 1 keys returns
\* pool[(counter_after - 1) mod K]; the callers on one Service object get the
\* counter values 1, 2, ... each exactly once (the i-th increment returns
\* pool[(i-1) mod K]); two selections with consecutive counter values have
\* distinct indices iff K >= 2.
C1_AtomicRoundRobin ==
    \A r \in 1..MaxReqs : Selected(r) =>
        LET K == Len(PoolOf(r)) IN
        /\ K >= 1
        /\ req[r].idx = (req[r].after - 1) % K
        /\ req[r].key = PoolOf(r)[((req[r].after - 1) % K) + 1]
        /\ req[r].after \in 1..ObjCounter(r)
        /\ \A i \in 1..ObjCounter(r) :
              \E q \in 1..MaxReqs :
                 Selected(q) /\ Obj(q) = Obj(r) /\ req[q].after = i
        /\ \A q \in 1..MaxReqs :
              (q # r /\ Selected(q) /\ Obj(q) = Obj(r)) =>
                 /\ req[q].after # req[r].after
                 /\ (req[q].after = req[r].after + 1) =>
                       ((req[q].idx # req[r].idx) <=> (K >= 2))

\* three callers on one shared Service with two keys, the third selecting
\* while the first has not yet been dispatched (the index wraps to 0)
C1_Witness ==
    \E r1, r2, r3 \in 1..MaxReqs :
        /\ Selected(r1) /\ Selected(r2) /\ Selected(r3)
        /\ req[r1].shared
        /\ Obj(r1) = Obj(r2) /\ Obj(r2) = Obj(r3)
        /\ Len(PoolOf(r1)) = 2
        /\ req[r1].after = 1 /\ req[r2].after = 2 /\ req[r3].after = 3
        /\ req[r1].pc = "selected" /\ req[r3].idx = 0

\* the requests that resolved the element e of config.Services and took a key
SelectedOn(e) == { r \in 1..MaxReqs : Selected(r) /\ req[r].entry = e }

UsesOf(e, j) == Cardinality({ r \in SelectedOn(e) : req[r].idx = j })

Entries == { [arr |-> a, i |-> i] : a \in 1..(MaxReconfig + 1), i \in 1..2 }

FairOn(e) ==
    LET K == Len(arrays[e.arr][e.i].APIKeys)
        N == Cardinality(SelectedOn(e))
    IN  K >= 1 =>
        /\ \A j \in 0..(K - 1) : UsesOf(e, j) \in {N \div K, CeilDiv(N, K)}
        /\ N >= 1 => UsesOf(e, 0) >= 1
        /\ (N >= 2 /\ K >= 2) => UsesOf(e, 1) >= 1

\* C2: the N requests that resolved the same Service of one configuration
\* use each key of its pool floor(N/K) or ceil(N/K) times; the first uses
\* pool[0] and, when K >= 2, the second uses pool[1].
C2_RoundRobinFairness ==
    \A e \in Entries :
        (e.arr <= Len(arrays) /\ e.i <= Len(arrays[e.arr])) => FairOn(e)

\* the same statement for the handlers of part_001 alone, which keep a pointer
\* to the shared element
RR_FairnessSharedPointer == (build = "part_001") => C2_RoundRobinFairness

\* ------------------------------------------------------------------------
\* Auth / quota gate: AuthMiddleware and the operations that change its tables
\* ------------------------------------------------------------------------
PipelinePaths == {"/v1/chat/completions", "/v1/messages"}
\* paths under /api/users, /api/services, /api/stats
JWTOnlyPaths == {"/api/users"}
Paths == PipelinePaths \cup JWTOnlyPaths

\* Authorization header: absent, "Bearer <token>", or another scheme
NoHeader == [scheme |-> "", tok |-> ""]
AuthHeaders ==
    {NoHeader, [scheme |-> "Basic", tok |-> "bad"]} \cup
    { [scheme |-> "Bearer", tok |-> t] : t \in Tokens }
XApiKeys == {""} \cup Tokens

\* authHeader != "" && strings.HasPrefix(authHeader, "Bearer ")
IsBearer(h) == h.scheme = "Bearer"

\* auth.ParseToken: the claims of a session token, NoClaims on error
ParseToken(t) == IF t \in SessionTokens THEN sessions[t] ELSE NoClaims

EffectiveAPIKey_BearerFirst(h, x) == IF IsBearer(h) THEN h.tok ELSE x

\* apiKey := x-api-key; if empty, the Bearer value
EffectiveAPIKey(h, x) == IF x # "" THEN x ELSE IF IsBearer(h) THEN h.tok ELSE ""

\* db.DB.Preload("User").Where("key = ? AND is_active = ?", apiKey, true).First
KeyFound(k) == k \in APIKeyStrings /\ apikeys[k].IsActive

\* keyRecord.User after Preload: the owner's row, the zero User when missing
KeyUser(k) == IF apikeys[k].UserID \in UserIDs THEN users[apikeys[k].UserID]
              ELSE NoUser

\* u.Role != super_admin && u.Role != admin && u.Quota >= 0 && u.UsedAmount >= u.Quota
QuotaExceeded(u) ==
    /\ u.Role # RoleSuperAdmin
    /\ u.Role # RoleAdmin
    /\ u.Quota >= 0
    /\ u.UsedAmount >= u.Quota

Outcome(path, h, x, verdict, via, uid, role) ==
    [path |-> path, bearer |-> IF IsBearer(h) THEN h.tok ELSE "", xkey |-> x,
     verdict |-> verdict, via |-> via, userID |-> uid, role |-> role,
     db |-> [users |-> users, apikeys |-> apikeys, sessions |-> sessions]]

AuthMiddleware(path, h, x) ==
    /\ LET claims == ParseToken(h.tok)
           apiKey == EffectiveAPIKey(h, x)
       IN
       IF IsBearer(h) /\ claims # NoClaims
       THEN last' = Outcome(path, h, x, "next", "jwt", claims.UserID, claims.Role)
       ELSE IF path \in JWTOnlyPaths
       THEN last' = Outcome(path, h, x, "401", "", 0, "")
       ELSE IF apiKey # "" /\ KeyFound(apiKey) /\ KeyUser(apiKey).ID # 0
       THEN IF QuotaExceeded(KeyUser(apiKey))
            THEN last' = Outcome(path, h, x, "403", "apikey", 0, "")
            ELSE last' = Outcome(path, h, x, "next", "apikey", KeyUser(apiKey).ID,
                                 KeyUser(apiKey).Role)
       ELSE last' = Outcome(path, h, x, "401", "", 0, "")
    /\ UNCHANGED <<users, apikeys, sessions>>
    /\ UNCHANGED <<rrVars, sseVars, snoopVars, proxyVars, restVars>>

\* UserLoginHandler: auth.GenerateToken(user.ID, user.Username, user.Role)
UserLoginHandler(u) ==
    /\ users[u] # NoUser
    /\ sessions' = [sessions EXCEPT ![TokenOf(u)] = [UserID |-> u, Role |-> users[u].Role]]
    /\ UNCHANGED <<users, apikeys, last>>
    /\ UNCHANGED <<rrVars, sseVars, snoopVars, proxyVars, restVars>>

\* the handlers' deferred quota update after an admitted, successful request:
\* UPDATE users SET used_amount = used_amount + (tokensIn + tokensOut)
UpdateUsedAmount(tokens) ==
    /\ last.verdict = "next"
    /\ last.path \in PipelinePaths
    /\ last.userID \in UserIDs
    /\ users[last.userID] # NoUser
    /\ users[last.userID].UsedAmount + tokens <= MaxUsed
    /\ users' = [users EXCEPT ![last.userID].UsedAmount = @ + tokens]
    /\ UNCHANGED <<apikeys, sessions, last>>
    /\ UNCHANGED <<rrVars, sseVars, snoopVars, proxyVars, restVars>>

\* UpdateUserHandler: updates["quota"] = *req.Quota
UpdateUserHandler(u, quota) ==
    /\ users[u] # NoUser
    /\ users' = [users EXCEPT ![u].Quota = quota]
    /\ UNCHANGED <<apikeys, sessions, last>>
    /\ UNCHANGED <<rrVars, sseVars, snoopVars, proxyVars, restVars>>

\* DeleteUserHandler: hard delete of the users row; api_keys rows stay
DeleteUserHandler(u) ==
    /\ users[u] # NoUser
    /\ users' = [users EXCEPT ![u] = NoUser]
    /\ UNCHANGED <<apikeys, sessions, last>>
    /\ UNCHANGED <<rrVars, sseVars, snoopVars, proxyVars, restVars>>

InitGate ==
    /\ \E role \in Roles, q \in Quotas :
          users = [u \in UserIDs |->
                      [ID |-> u, Role |-> role, Quota |-> q, UsedAmount |-> 0]]
    /\ \E act \in BOOLEAN :
          apikeys = [k \in APIKeyStrings |->
                        [UserID |-> CHOOSE u \in UserIDs : KeyOf(u) = k,
                         IsActive |-> act]]
    /\ sessions = [t \in SessionTokens |-> NoClaims]
    /\ last = NoOutcome
    /\ IdleRR
    /\ IdleSSE
    /\ IdleSnoop
    /\ IdleProxy
    /\ IdleRest

NextGate ==
    \/ \E path \in Paths, h \in AuthHeaders, x \in XApiKeys : AuthMiddleware(path, h, x)
    \/ \E u \in UserIDs : UserLoginHandler(u)
    \/ \E n \in 1..2 : UpdateUsedAmount(n)
    \/ \E u \in UserIDs, q \in Quotas : UpdateUserHandler(u, q)
    \/ \E u \in UserIDs : DeleteUserHandler(u)

SpecGate == InitGate /\ [][NextGate]_vars

\* ------------------------------------------------------------------------
\* Properties of the gate (SpecGate)
\* ------------------------------------------------------------------------
\* AuthMiddleware has answered a request on /v1/chat/completions or /v1/messages
Gated == last.verdict # "none" /\ last.path \in PipelinePaths

\* the tables as the middleware read them for the last request
ActiveCredential(t) == t \in APIKeyStrings /\ last.db.apikeys[t].IsActive

OwnerRow(t) ==
    IF t \in APIKeyStrings /\ last.db.apikeys[t].UserID \in UserIDs
    THEN last.db.users[last.db.apikeys[t].UserID]
    ELSE NoUser

IsSessionToken(t) == t \in SessionTokens /\ last.db.sessions[t] # NoClaims

\* the API key of the request: x-api-key, or the Bearer value without it
PresentedKey == IF last.xkey # "" THEN last.xkey ELSE last.bearer

Exhausted(row) == row.Role = RoleUser /\ row.Quota >= 0 /\ row.UsedAmount >= row.Quota

\* C3: a role=user principal is admitted to the pipeline only if quota < 0 or
\* used_amount < quota at the moment of admission, on every admitting path
\* (x-api-key, API key as bearer, bearer that parses as a session token).
C3_AdmittedWithinQuota ==
    (Gated /\ last.verdict = "next" /\ last.userID \in UserIDs) =>
        LET row == last.db.users[last.userID] IN
        (row.Role = RoleUser) => (row.Quota < 0 \/ row.UsedAmount < row.Quota)

\* C4: a request whose API key belongs to a role=user principal with
\* quota >= 0 and used_amount >= quota is answered 403 and not passed on;
\* a principal with quota < 0 is admitted whatever its used_amount; admin and
\* super_admin principals are never rejected for quota.
C4_ExhaustedIs403 ==
    Gated =>
        LET row == OwnerRow(PresentedKey) IN
        /\ (ActiveCredential(PresentedKey) /\ row.ID # 0 /\ Exhausted(row))
              => last.verdict = "403"
        /\ (ActiveCredential(PresentedKey) /\ row.ID # 0 /\ row.Quota < 0)
              => last.verdict = "next"
        /\ (last.verdict = "403") => row.Role = RoleUser

GrammarStep(q, e) ==
    IF q = "s0" /\ e = "message_start" THEN "s1"
    ELSE IF q = "s1" /\ e = "content_block_start" THEN "open"
    ELSE IF q = "open" /\ e = "content_block_delta" THEN "open"
    ELSE IF q = "open" /\ e = "content_block_stop" THEN "closed"
    ELSE IF q = "closed" /\ e = "content_block_start" THEN "open"
    ELSE IF q = "closed" /\ e = "message_delta" THEN "md"
    ELSE IF q = "md" /\ e = "message_stop" THEN "end"
    ELSE "reject"

RECURSIVE GrammarRun(_, _)
GrammarRun(q, seq) ==
    IF seq = << >> THEN q
    ELSE GrammarRun(GrammarStep(q, Head(seq).ev), Tail(seq))

\* C6: the events written are a prefix of message_start, content_block_start,
\* (content_block_delta | content_block_stop content_block_start)*,
\* content_block_stop, message_delta, message_stop; no content_block_delta is
\* written outside an open block.
C6_EventGrammar == GrammarRun("s0", events) # "reject"

\* the last three events close the open block and the message
FinalTail ==
    LET n == Len(events) IN
    /\ n >= 5
    /\ events[1].ev = "message_start"
    /\ events[n - 2] = Ev("content_block_stop", blockIndex, "")
    /\ events[n - 1] = Ev("message_delta", 0, "end_turn")
    /\ events[n] = Ev("message_stop", 0, "")

\* C7: when the provider returns nil and the client stays connected, the
\* handler eventually returns, and it has then written content_block_stop for
\* the open block, message_delta (end_turn) and message_stop as its last three
\* events, after a stream that began with message_start.
C7_StreamTerminates ==
    /\ []((streamPC = "returned" /\ ~ctxDone /\ provErr # "err") => FinalTail)
    /\ [](provErr = "nil" => <>(streamPC = "returned" \/ ctxDone))

\* a completed stream whose last open block was a tool_use block after text
C7_Witness ==
    /\ streamPC = "returned" /\ ~ctxDone /\ provErr = "nil"
    /\ inToolUse /\ blockIndex >= 1
    /\ \E i \in 1..Len(events) : events[i].kind = "text_delta"
    /\ events[Len(events)].ev = "message_stop"

\* ------------------------------------------------------------------------
\* UsageSnooper over a chunked upstream body
\* ------------------------------------------------------------------------
\* The body is a sequence of symbols, each standing for a run of bytes:
\*   "I"  "prompt_ or "input_           "O"  "completion_ or "output_
\*   "T"  tokens"     ":"  a colon      "s"  whitespace
\*   "0".."9" a digit                   "x"  any other byte
\* A read boundary inside the run of a symbol leaves neither side a match,
\* like a boundary between two symbols of one field.
DigitChars == <<"0", "1", "2", "3", "4", "5", "6", "7", "8", "9">>
DigitSet == {DigitChars[i] : i \in 1..10}

\* values a token field carries: one digit and two digits
TokenValues == {2, 13}

Itoa(v) == IF v < 10 THEN <<DigitChars[v + 1]>>
           ELSE <<DigitChars[(v \div 10) + 1], DigitChars[(v % 10) + 1]>>

\* strconv.Atoi on a run of digits
RECURSIVE Atoi(_)
Atoi(ds) ==
    IF ds = << >> THEN 0
    ELSE LET n == Len(ds)
             d == CHOOSE i \in 1..10 : DigitChars[i] = ds[n]
         IN  10 * Atoi(SubSeq(ds, 1, n - 1)) + (d - 1)

\* "input_tokens":2,   or   "output_tokens": 13,
TokenField(k, ws, v) ==
    <<k, "T", ":">> \o (IF ws THEN <<"s">> ELSE << >>) \o Itoa(v) \o <<"x">>
TokenFields == { TokenField(k, ws, v) : k \in {"I", "O"}, ws \in BOOLEAN, v \in TokenValues }

RECURSIVE FieldRuns(_)
FieldRuns(n) == IF n = 0 THEN { << >> }
                ELSE { f \o b : f \in TokenFields, b \in FieldRuns(n - 1) }
UpstreamBodies == { <<"x">> \o b : b \in UNION { FieldRuns(n) : n \in 1..MaxFields } }

\* \s*
RECURSIVE SkipSpace(_, _)
SkipSpace(chunk, j) ==
    IF j <= Len(chunk) /\ chunk[j] = "s" THEN SkipSpace(chunk, j + 1) ELSE j
\* (\d+), greedy
RECURSIVE TakeDigits(_, _)
TakeDigits(chunk, j) ==
    IF j <= Len(chunk) /\ chunk[j] \in DigitSet
    THEN <<chunk[j]>> \o TakeDigits(chunk, j + 1) ELSE << >>

\* the capture group of "(?:..._tokens)"\s*:\s*(\d+) matched at position i,
\* << >> when the expression does not match there
MatchAt(chunk, i, k) ==
    IF i + 1 <= Len(chunk) /\ chunk[i] = k /\ chunk[i + 1] = "T"
    THEN LET c == SkipSpace(chunk, i + 2) IN
         IF c <= Len(chunk) /\ chunk[c] = ":"
         THEN TakeDigits(chunk, SkipSpace(chunk, c + 1))
         ELSE << >>
    ELSE << >>

Matches(chunk, k) == { i \in 1..Len(chunk) : MatchAt(chunk, i, k) # << >> }

\* re.FindSubmatch: the leftmost match only
FindSubmatch(chunk, k) ==
    IF Matches(chunk, k) = {} THEN << >>
    ELSE MatchAt(chunk, CHOOSE i \in Matches(chunk, k) :
                           \A j \in Matches(chunk, k) : i <= j, k)

\* bytes.Contains(chunk, []byte("tokens"))
ContainsTokens(chunk) == \E i \in 1..Len(chunk) : chunk[i] = "T"

\* a variant that scans everything read so far
ReadChunk_Accumulated(body, pos, n) == SubSeq(body, 1, pos + n)

\* p[:n] of one Read
ReadChunk(body, pos, n) == SubSeq(body, pos + 1, pos + n)

\* the counter after one Read
Snoop(counter, chunk, k) ==
    IF ContainsTokens(chunk) /\ FindSubmatch(chunk, k) # << >>
    THEN counter + Atoi(FindSubmatch(chunk, k))
    ELSE counter

\* a boundary after position p separates two bytes of one token field
InsideField(body, p) ==
    /\ p < Len(body)
    /\ \/ body[p] \in {"I", "O", "T", ":", "s"}
       \/ body[p] \in DigitSet /\ body[p + 1] \in DigitSet

InitSnoop ==
    /\ snBody \in UpstreamBodies
    /\ snPos = 0
    /\ tokensIn = 0
    /\ tokensOut = 0
    /\ snSplit = FALSE
    /\ recorded = NoRecord
    /\ IdleRR
    /\ IdleGate
    /\ IdleSSE
    /\ IdleProxy
    /\ IdleRest

\* UsageSnooper.Read returning n > 0 bytes
Read(n) ==
    /\ snPos + n <= Len(snBody)
    /\ LET chunk == ReadChunk(snBody, snPos, n) IN
         /\ tokensIn' = Snoop(tokensIn, chunk, "I")
         /\ tokensOut' = Snoop(tokensOut, chunk, "O")
    /\ snPos' = snPos + n
    /\ snSplit' = (snSplit \/ InsideField(snBody, snPos + n))
    /\ UNCHANGED <<snBody, recorded>>
    /\ UNCHANGED <<rrVars, gateVars, sseVars, proxyVars, restVars>>

\* the handler's deferred recorder, after the body has been relayed
RecordUsage ==
    /\ snPos = Len(snBody)
    /\ recorded = NoRecord
    /\ recorded' = [PromptTokens |-> tokensIn, CompletionTokens |-> tokensOut]
    /\ UNCHANGED <<snBody, snPos, tokensIn, tokensOut, snSplit>>
    /\ UNCHANGED <<rrVars, gateVars, sseVars, proxyVars, restVars>>

NextSnoop ==
    \/ \E n \in 1..(Len(snBody) - snPos) : Read(n)
    \/ RecordUsage

SpecSnoop == InitSnoop /\ [][NextSnoop]_vars

\* sum of the values of every occurrence of the field in the complete body
RECURSIVE SumOver(_, _, _)
SumOver(body, k, is) ==
    IF is = {} THEN 0
    ELSE LET i == CHOOSE x \in is : TRUE
         IN  Atoi(MatchAt(body, i, k)) + SumOver(body, k, is \ {i})
BodySum(body, k) == SumOver(body, k, Matches(body, k))

\* C8: a body with input_tokens once and output_tokens twice, relayed with
\* no token field split across a read boundary, is recorded with prompt_tokens
\* equal to the input value and completion_tokens equal to the sum of the two
\* output values, however the body is divided into reads.
C8_SnooperSumsOccurrences ==
    (/\ recorded # NoRecord
     /\ ~snSplit
     /\ Cardinality(Matches(snBody, "I")) = 1
     /\ Cardinality(Matches(snBody, "O")) = 2)
    => /\ recorded.PromptTokens = BodySum(snBody, "I")
       /\ recorded.CompletionTokens = BodySum(snBody, "O")

\* C9: after any sequence of Reads the prompt counter is at most the sum of
\* the prompt/input values in the complete body and the completion counter at
\* most the sum of the completion/output values: occurrences may be missed or
\* counted short, never counted twice or with a larger value.
C9_NeverOverCounts ==
    /\ tokensIn <= BodySum(snBody, "I")
    /\ tokensOut <= BodySum(snBody, "O")
    /\ recorded # NoRecord =>
          /\ recorded.PromptTokens <= BodySum(snBody, "I")
          /\ recorded.CompletionTokens <= BodySum(snBody, "O")

\* a body relayed to its end where a boundary inside the digits of the only
\* output field made the snooper count it short, and an input field was missed
C9_Witness ==
    /\ recorded # NoRecord
    /\ snSplit
    /\ Cardinality(Matches(snBody, "O")) = 1
    /\ 0 < recorded.CompletionTokens
    /\ recorded.CompletionTokens < BodySum(snBody, "O")
    /\ Matches(snBody, "I") # {}
    /\ recorded.PromptTokens = 0

\* ------------------------------------------------------------------------
\* Proxy decision and fast-path body rewrite
\* ------------------------------------------------------------------------
\* JSON values of the top-level members of a request body.  Strings and
\* number literals are sequences of symbols, one symbol per byte except "B",
\* which stands for the fifteen digits 900719925474099.
Str(cs) == [t |-> "str", s |-> cs, items |-> << >>]
Num(lit) == [t |-> "num", s |-> lit, items |-> << >>]
True == [t |-> "bool", s |-> <<"true">>, items |-> << >>]
List(bs) == [t |-> "list", s |-> << >>, items |-> bs]
\* {"type":"text","text":...} and a block without a text member
TextBlock(cs) == [hasText |-> TRUE, text |-> cs]
OtherBlock == [hasText |-> FALSE, text |-> << >>]
Member(k, v) == [key |-> k, val |-> v]

ServiceName == <<"s", "v">>
TargetModel == <<"t", "g", "t">>
ServiceTypes == {"openai", "anthropic", "gemini", "deepseek", "glm", "yi", "moonshot", "azure"}
ProxyServices ==
    { [Name |-> ServiceName, Type |-> ty, ModelName |-> mn] :
         ty \in ServiceTypes, mn \in {<< >>, ServiceName, TargetModel} }

\* 1, 1.0 and 9007199254740993 (2^53 + 1)
NumberLiterals == { <<"1">>, <<"1", ".", "0">>, <<"B", "3">> }
SystemValues ==
    { Str(<<"p">>),
      List(<<TextBlock(<<"p">>)>>),
      List(<<TextBlock(<<" ", "p">>), TextBlock(<<"q">>)>>),
      List(<<TextBlock(<< >>)>>),
      List(<<OtherBlock>>) }

Optional(k, vals) == { << >> } \cup { <<Member(k, v)>> : v \in vals }
ClientBodies ==
    { <<Member("model", Str(m)), Member("messages", List(<< >>))>> \o mt \o st \o sy :
         m \in {ServiceName, <<"z">>},
         mt \in Optional("max_tokens", { Num(l) : l \in NumberLiterals }),
         st \in Optional("stream", {True}),
         sy \in Optional("system", SystemValues) }

\* bytes a symbol stands for
SymLen(sym) ==
    CASE sym = "B" -> 15
      [] sym = "true" -> 4
      [] sym = "model" -> 5
      [] sym = "stream" -> 6
      [] sym = "system" -> 6
      [] sym = "messages" -> 8
      [] sym = "max_tokens" -> 10
      [] sym = "{text:" -> 8
      [] sym = ",type:text}" -> 15
      [] sym = "{type:image}" -> 16
      [] OTHER -> 1

RECURSIVE ByteLen(_)
ByteLen(bytes) ==
    IF bytes = << >> THEN 0 ELSE SymLen(Head(bytes)) + ByteLen(Tail(bytes))

Quoted(cs) == <<"\"">> \o cs \o <<"\"">>

RECURSIVE BlockBytes(_)
BlockBytes(bs) ==
    IF bs = << >> THEN << >>
    ELSE (IF Head(bs).hasText
          THEN <<"{text:">> \o Quoted(Head(bs).text) \o <<",type:text}">>
          ELSE <<"{type:image}">>)
         \o (IF Len(bs) > 1 THEN <<",">> ELSE << >>) \o BlockBytes(Tail(bs))

ValueBytes(v) ==
    CASE v.t = "str" -> Quoted(v.s)
      [] v.t = "list" -> <<"[">> \o BlockBytes(v.items) \o <<"]">>
      [] OTHER -> v.s

RECURSIVE MemberBytes(_)
MemberBytes(ms) ==
    IF ms = << >> THEN << >>
    ELSE <<"\"", Head(ms).key, "\"", ":">> \o ValueBytes(Head(ms).val)
         \o (IF Len(ms) > 1 THEN <<",">> ELSE << >>) \o MemberBytes(Tail(ms))

\* the bytes of a JSON object with these members
Bytes(ms) == <<"{">> \o MemberBytes(ms) \o <<"}">>

\* the shortest literal of the float64 nearest to a number literal
Float64(lit) ==
    IF lit = <<"1", ".", "0">> THEN <<"1">>
    ELSE IF lit = <<"B", "3">> THEN <<"B", "2">>
    ELSE lit

\* json.Unmarshal into interface{}: numbers become float64
Decode(v) == IF v.t = "num" THEN Num(Float64(v.s)) ELSE v

\* json.Unmarshal into map[string]interface{}: the last member of a key wins
Unmarshal(ms) ==
    [k \in {ms[i].key : i \in 1..Len(ms)} |->
        Decode(ms[CHOOSE i \in 1..Len(ms) :
                     /\ ms[i].key = k
                     /\ \A j \in 1..Len(ms) : ms[j].key = k => j <= i].val)]

\* json.Marshal of a map writes the keys in sorted order
KeyOrder == <<"max_tokens", "messages", "model", "stream", "system">>
RECURSIVE MarshalFrom(_, _)
MarshalFrom(bodyMap, i) ==
    IF i > Len(KeyOrder) THEN << >>
    ELSE (IF KeyOrder[i] \in DOMAIN bodyMap
          THEN <<Member(KeyOrder[i], bodyMap[KeyOrder[i]])>> ELSE << >>)
         \o MarshalFrom(bodyMap, i + 1)
Marshal(bodyMap) == MarshalFrom(bodyMap, 1)

\* baseReq.Model of the peeked body
BaseModel(ms) == IF "model" \in DOMAIN Unmarshal(ms) THEN Unmarshal(ms)["model"].s ELSE << >>

Space == {" ", "\n"}
RECURSIVE TrimSpace(_)
TrimSpace(cs) ==
    IF cs = << >> THEN cs
    ELSE IF Head(cs) \in Space THEN TrimSpace(Tail(cs))
    ELSE IF cs[Len(cs)] \in Space THEN TrimSpace(SubSeq(cs, 1, Len(cs) - 1))
    ELSE cs

\* flatSystem: the text of every block that has one, each followed by "\n"
RECURSIVE FlatSystem(_)
FlatSystem(bs) ==
    IF bs = << >> THEN << >>
    ELSE (IF Head(bs).hasText THEN Head(bs).text \o <<"\n">> ELSE << >>)
         \o FlatSystem(Tail(bs))

\* the "system" sanitising of the Anthropic fast path
SanitizeSystem(bodyMap) ==
    IF /\ "system" \in DOMAIN bodyMap
       /\ bodyMap["system"].t = "list"
       /\ FlatSystem(bodyMap["system"].items) # << >>
    THEN [bodyMap EXCEPT !["system"] = Str(TrimSpace(FlatSystem(bodyMap["system"].items)))]
    ELSE bodyMap

\* bodyMap["model"] = matchedService.ModelName
SetModel(bodyMap, name) ==
    [k \in DOMAIN bodyMap \cup {"model"} |-> IF k = "model" THEN Str(name) ELSE bodyMap[k]]

Overrides(svc) == svc.ModelName # << >> /\ svc.ModelName # svc.Name

\* the request as handleReverseProxy forwards it
Forward(path, ms, contentLength) ==
    [path |-> path, model |-> BaseModel(ms), body |-> ms, contentLength |-> contentLength]

InitProxy ==
    /\ pxPC = "start"
    /\ pxIngress \in {"openai", "anthropic"}
    /\ pxSvc \in ProxyServices
    /\ pxBody \in ClientBodies
    /\ pxLen = ByteLen(Bytes(pxBody))
    /\ pxOut = NoOutbound
    /\ pxKeyed = FALSE
    /\ pxResp = NoResponse
    /\ IdleRR
    /\ IdleGate
    /\ IdleSSE
    /\ IdleSnoop
    /\ IdleRest

\* the body of the 404 each handler writes
NotFoundBody(ingress) ==
    IF ingress = "openai"
    THEN Response(404, "object", "invalid_request_error", "model_not_found")
    ELSE Response(404, "string", "", "")

\* no Service carries the requested name: 404
ModelNotFound ==
    /\ pxPC = "start"
    /\ BaseModel(pxBody) # pxSvc.Name
    /\ pxPC' = "404"
    /\ pxResp' = NotFoundBody(pxIngress)
    /\ UNCHANGED <<pxIngress, pxSvc, pxBody, pxLen, pxOut, pxKeyed>>
    /\ UNCHANGED <<rrVars, gateVars, sseVars, snoopVars, restVars>>

\* ChatCompletionsHandler, upstream protocol openai
ChatCompletionsFastPath ==
    /\ pxPC = "start"
    /\ pxIngress = "openai"
    /\ BaseModel(pxBody) = pxSvc.Name
    /\ getServiceProtocol(pxSvc.Type) = "openai"
    /\ LET newBytes == Marshal(SetModel(Unmarshal(pxBody), pxSvc.ModelName)) IN
         pxOut' = IF Overrides(pxSvc)
                  THEN Forward("/chat/completions", newBytes, ByteLen(Bytes(newBytes)))
                  ELSE Forward("/chat/completions", pxBody, pxLen)
    /\ pxPC' = "proxied"
    /\ pxKeyed' = TRUE
    /\ UNCHANGED <<pxIngress, pxSvc, pxBody, pxLen, pxResp>>
    /\ UNCHANGED <<rrVars, gateVars, sseVars, snoopVars, restVars>>

\* AnthropicMessagesHandler, upstream protocol anthropic
AnthropicMessagesFastPath ==
    /\ pxPC = "start"
    /\ pxIngress = "anthropic"
    /\ BaseModel(pxBody) = pxSvc.Name
    /\ getServiceProtocol(pxSvc.Type) = "anthropic"
    /\ LET newBytes == Marshal(SanitizeSystem(SetModel(Unmarshal(pxBody), pxSvc.ModelName))) IN
         pxOut' = IF Overrides(pxSvc)
                  THEN Forward("/messages", newBytes, ByteLen(Bytes(newBytes)))
                  ELSE Forward("/messages", pxBody, pxLen)
    /\ pxPC' = "proxied"
    /\ pxKeyed' = TRUE
    /\ UNCHANGED <<pxIngress, pxSvc, pxBody, pxLen, pxResp>>
    /\ UNCHANGED <<rrVars, gateVars, sseVars, snoopVars, restVars>>

\* either handler when the upstream protocol differs from the ingress: the
\* canonical request is built and its Model is overridden
SlowPath ==
    /\ pxPC = "start"
    /\ BaseModel(pxBody) = pxSvc.Name
    /\ getServiceProtocol(pxSvc.Type) # pxIngress
    /\ pxOut' = [path |-> "provider",
                 model |-> IF pxSvc.ModelName # << >> THEN pxSvc.ModelName
                           ELSE BaseModel(pxBody),
                 body |-> << >>, contentLength |-> 0]
    /\ pxPC' = "converted"
    /\ pxKeyed' = TRUE
    /\ UNCHANGED <<pxIngress, pxSvc, pxBody, pxLen, pxResp>>
    /\ UNCHANGED <<rrVars, gateVars, sseVars, snoopVars, restVars>>

NextProxy ==
    \/ ModelNotFound
    \/ ChatCompletionsFastPath
    \/ AnthropicMessagesFastPath
    \/ SlowPath

SpecProxy == InitProxy /\ [][NextProxy]_vars

\* two JSON values are the same value: number literals by their exact decimal
\* value, everything else literally
Decimal(lit) == IF lit = <<"1", ".", "0">> THEN <<"1">> ELSE lit
SameJSON(a, b) ==
    /\ a.t = b.t
    /\ a.items = b.items
    /\ IF a.t = "num" THEN Decimal(a.s) = Decimal(b.s) ELSE a.s = b.s

\* the outbound body has the member with the same value
Preserved(m) ==
    \E i \in 1..Len(pxOut.body) :
        pxOut.body[i].key = m.key /\ SameJSON(pxOut.body[i].val, m.val)

\* C10: when Service S has target_model T and the request's model is S.name,
\* the outbound model is exactly T and, on the fast path, the outbound
\* Content-Length is the length of the outbound body and every other
\* top-level member of the client's body is preserved.
C10_ModelRewrite ==
    (pxPC \in {"proxied", "converted"} /\ pxSvc.ModelName # << >>)
    => /\ pxOut.model = pxSvc.ModelName
       /\ pxPC = "proxied" =>
            /\ pxOut.contentLength = ByteLen(Bytes(pxOut.body))
            /\ \A i \in 1..Len(pxBody) :
                  pxBody[i].key # "model" => Preserved(pxBody[i])

\* ------------------------------------------------------------------------
\* Protocol adapter: canonical -> Anthropic (provider) and Anthropic -> canonical
\* (ingress).  Texts are sequences of symbols, << >> is the empty string.
\* ------------------------------------------------------------------------
\* provider.Message and provider.ToolCall
Message(role, content, toolCalls, toolCallID) ==
    [Role |-> role, Content |-> content, ToolCalls |-> toolCalls, ToolCallID |-> toolCallID]
ToolCall(id, name, arguments) == [ID |-> id, Name |-> name, Arguments |-> arguments]

\* the arguments strings of a tool call: objects, a number written 1.0, the
\* empty string, a JSON array and null
ArgumentStrings == { "{}", "{\"a\":1}", "{\"a\":1.0}", "", "[1]", "null" }
JSONKind(str) ==
    CASE str \in {"{}", "{\"a\":1}", "{\"a\":1.0}"} -> "object"
      [] str = "[1]" -> "array"
      [] str = "null" -> "null"
      [] OTHER -> "invalid"
\* a decoded JSON value, written as encoding/json marshals it
DecodedJSON(str) == IF str = "{\"a\":1.0}" THEN "{\"a\":1}" ELSE str
\* json.Unmarshal([]byte(arguments), &inputMap) with the {} fallback on error;
\* null leaves the nil map
InputMap(arguments) ==
    IF JSONKind(arguments) \in {"object", "null"} THEN DecodedJSON(arguments) ELSE "{}"

\* content blocks (map[string]interface{}) with one shape for all types
Block(type, text, id, name, input, toolUseID, content) ==
    [type |-> type, text |-> text, id |-> id, name |-> name, input |-> input,
     tool_use_id |-> toolUseID, content |-> content]
NoResult == [kind |-> "nil", text |-> << >>, blocks |-> << >>]
StringResult(cs) == [kind |-> "string", text |-> cs, blocks |-> << >>]
ListResult(parts) == [kind |-> "list", text |-> << >>, blocks |-> parts]
TextContentBlock(cs) == Block("text", cs, "", "", "", "", NoResult)
ToolUseBlock_EmptyInput(tc) == Block("tool_use", << >>, tc.ID, tc.Name, "{}", "", NoResult)
ToolUseBlock(tc) ==
    Block("tool_use", << >>, tc.ID, tc.Name, InputMap(tc.Arguments), "", NoResult)
ToolResultBlock(id, cs) == Block("tool_result", << >>, "", "", "", id, StringResult(cs))

\* AnthropicMessage.Content (interface{}): a string, []interface{} or
\* []map[string]interface{}
StringContent(cs) == [kind |-> "string", text |-> cs, blocks |-> << >>]
ListContent(bs) == [kind |-> "[]interface{}", text |-> << >>, blocks |-> bs]
MapsContent(bs) == [kind |-> "[]map", text |-> << >>, blocks |-> bs]
NilContent == [kind |-> "nil", text |-> << >>, blocks |-> << >>]
AnthropicMessage(role, content) == [Role |-> role, Content |-> content]

RECURSIVE ToolUseBlocks(_)
ToolUseBlocks(tcs) ==
    IF tcs = << >> THEN << >> ELSE <<ToolUseBlock(Head(tcs))>> \o ToolUseBlocks(Tail(tcs))

\* lastIdx >= 0 && Messages[lastIdx].Role == "user"
MergesIntoLast_Never(msgs) == FALSE
MergesIntoLast(msgs) == Len(msgs) > 0 /\ msgs[Len(msgs)].Role = "user"

\* the previous content as a block list
AsBlockList(content) ==
    IF content.kind = "string" THEN <<TextContentBlock(content.text)>>
    ELSE content.blocks

\* one iteration of the loop over req.Messages
ConvertMessage(anthropicReq, msg) ==
    IF msg.Role = "system"
    THEN [anthropicReq EXCEPT !.System = StringContent(msg.Content)]
    ELSE IF msg.Role = "assistant" /\ Len(msg.ToolCalls) > 0
    THEN [anthropicReq EXCEPT !.Messages = @ \o
            <<AnthropicMessage("assistant",
                 MapsContent((IF msg.Content # << >> THEN <<TextContentBlock(msg.Content)>>
                              ELSE << >>) \o ToolUseBlocks(msg.ToolCalls)))>>]
    ELSE IF msg.Role \in {"user", "assistant"}
    THEN [anthropicReq EXCEPT !.Messages = @ \o
            <<AnthropicMessage(msg.Role, StringContent(msg.Content))>>]
    ELSE IF msg.Role = "tool"
    THEN LET block == ToolResultBlock(msg.ToolCallID, msg.Content)
             msgs == anthropicReq.Messages
         IN  IF MergesIntoLast(msgs)
             THEN [anthropicReq EXCEPT !.Messages[Len(msgs)].Content =
                      ListContent(AsBlockList(@) \o <<block>>)]
             ELSE [anthropicReq EXCEPT !.Messages = @ \o
                      <<AnthropicMessage("user", ListContent(<<block>>))>>]
    ELSE anthropicReq

RECURSIVE ConvertFrom(_, _, _)
ConvertFrom(anthropicReq, msgs, i) ==
    IF i > Len(msgs) THEN anthropicReq
    ELSE ConvertFrom(ConvertMessage(anthropicReq, msgs[i]), msgs, i + 1)
\* the Anthropic request a provider call builds from req.Messages
ToAnthropicRequest(msgs) == ConvertFrom(NoAnthropicRequest, msgs, 1)

\* provider.Tool and AnthropicTool
Tool(name, description, parameters) ==
    [Name |-> name, Description |-> description, Parameters |-> parameters]
AnthropicTool(name, description, inputSchema) ==
    [Name |-> name, Description |-> description, InputSchema |-> inputSchema]

\* "Map Tools" of ChatCompletion
MapTools(tools) ==
    [i \in 1..Len(tools) |->
        AnthropicTool(tools[i].Name, tools[i].Description, tools[i].Parameters)]

\* anthropicReq of ChatCompletion: MaxTokens 4096, no Stream
ChatCompletionRequest(msgs, tools) ==
    [ToAnthropicRequest(msgs) EXCEPT !.MaxTokens = 4096, !.Tools = MapTools(tools)]

\* the previous content as a block list, a string content forgotten
StreamPrevBlocks_DropString(content) == content.blocks

\* StreamChatCompletion: newContent before the tool_result block is appended
StreamPrevBlocks(content) ==
    IF content.kind = "string"
    THEN <<Block("text", content.text, "", "", "", "", NoResult)>>
    ELSE content.blocks

\* StreamChatCompletion: the tool_use blocks of an assistant message
RECURSIVE StreamToolUseBlocks(_)
StreamToolUseBlocks(tcs) ==
    IF tcs = << >> THEN << >>
    ELSE <<Block("tool_use", << >>, Head(tcs).ID, Head(tcs).Name,
                 InputMap(Head(tcs).Arguments), "", NoResult)>>
         \o StreamToolUseBlocks(Tail(tcs))

\* StreamChatCompletion: one iteration of the loop over req.Messages
StreamConvertMessage(anthropicReq, msg) ==
    IF msg.Role = "system"
    THEN [anthropicReq EXCEPT !.System = StringContent(msg.Content)]
    ELSE IF msg.Role \in {"user", "assistant"}
    THEN IF msg.Role = "assistant" /\ Len(msg.ToolCalls) > 0
         THEN LET text == IF msg.Content # << >>
                          THEN <<Block("text", msg.Content, "", "", "", "", NoResult)>>
                          ELSE << >>
              IN  [anthropicReq EXCEPT !.Messages = @ \o
                      <<AnthropicMessage("assistant",
                           MapsContent(text \o StreamToolUseBlocks(msg.ToolCalls)))>>]
         ELSE [anthropicReq EXCEPT !.Messages = @ \o
                  <<AnthropicMessage(msg.Role, StringContent(msg.Content))>>]
    ELSE IF msg.Role = "tool"
    THEN LET toolResultBlock ==
                Block("tool_result", << >>, "", "", "", msg.ToolCallID,
                      StringResult(msg.Content))
             lastIdx == Len(anthropicReq.Messages)
         IN  IF lastIdx >= 1 /\ anthropicReq.Messages[lastIdx].Role = "user"
             THEN [anthropicReq EXCEPT !.Messages[lastIdx].Content =
                      ListContent(StreamPrevBlocks(@) \o <<toolResultBlock>>)]
             ELSE [anthropicReq EXCEPT !.Messages = @ \o
                      <<AnthropicMessage("user", ListContent(<<toolResultBlock>>))>>]
    ELSE anthropicReq

RECURSIVE StreamConvertFrom(_, _, _)
StreamConvertFrom(anthropicReq, msgs, i) ==
    IF i > Len(msgs) THEN anthropicReq
    ELSE StreamConvertFrom(StreamConvertMessage(anthropicReq, msgs[i]), msgs, i + 1)

\* "Map Tools" of StreamChatCompletion
StreamMapTools(tools) ==
    [i \in 1..Len(tools) |->
        LET schema == tools[i].Parameters IN
        AnthropicTool(tools[i].Name, tools[i].Description, schema)]

\* anthropicReq of StreamChatCompletion: MaxTokens 4096, Stream true
StreamChatCompletionRequest(msgs, tools) ==
    [StreamConvertFrom(NoAnthropicRequest, msgs, 1)
        EXCEPT !.MaxTokens = 4096, !.Stream = TRUE, !.Tools = StreamMapTools(tools)]

\* strings.Join(textParts, "\n") without the separator
RECURSIVE JoinNewline_NoSeparator(_)
JoinNewline_NoSeparator(parts) ==
    IF parts = << >> THEN << >> ELSE Head(parts) \o JoinNewline_NoSeparator(Tail(parts))

\* strings.Join(textParts, "\n")
RECURSIVE JoinNewline(_)
JoinNewline(parts) ==
    IF parts = << >> THEN << >>
    ELSE IF Len(parts) = 1 THEN Head(parts)
    ELSE Head(parts) \o <<"\n">> \o JoinNewline(Tail(parts))

\* anthropic.ExtractText: a string, or the text blocks of a list with "\n"
\* written before a text whenever the builder is not empty
RECURSIVE ExtractTextFrom(_, _)
ExtractTextFrom(sb, blocks) ==
    IF blocks = << >> THEN sb
    ELSE ExtractTextFrom(
            IF Head(blocks).type = "text"
            THEN (IF sb # << >> THEN sb \o <<"\n">> ELSE sb) \o Head(blocks).text
            ELSE sb,
            Tail(blocks))
ExtractText(content) ==
    IF content.kind = "string" THEN content.text
    ELSE IF content.kind = "[]interface{}" THEN ExtractTextFrom(<< >>, content.blocks)
    ELSE << >>

\* resultContent of a tool_result block: the string, or the texts of the
\* list's text parts one after the other
RECURSIVE ConcatTexts(_)
ConcatTexts(parts) ==
    IF parts = << >> THEN << >> ELSE Head(parts) \o ConcatTexts(Tail(parts))
ResultContent(content) ==
    IF content.kind = "string" THEN content.text
    ELSE IF content.kind = "list" THEN ConcatTexts(content.blocks)
    ELSE << >>

\* string(json.Marshal(block["input"]))
MarshalInput(input) == IF input = "" THEN "null" ELSE input

\* the flush before a tool_result, without the flush
FlushText_Late(st) == st

\* the flush before a tool_result: the accumulated text becomes a role=user
\* message and textParts is cleared
FlushText(st) ==
    IF Len(st.textParts) > 0
    THEN [st EXCEPT !.messages = @ \o
                       <<Message("user", JoinNewline(st.textParts), << >>, "")>>,
                    !.textParts = << >>]
    ELSE st

\* one block of the "Process blocks" loop; st holds messages, textParts, toolCalls
ProcessBlock(st, block) ==
    IF block.type = "text"
    THEN [st EXCEPT !.textParts = @ \o <<block.text>>]
    ELSE IF block.type = "tool_use"
    THEN [st EXCEPT !.toolCalls = @ \o <<ToolCall(block.id, block.name, MarshalInput(block.input))>>]
    ELSE IF block.type = "tool_result"
    THEN LET flushed == FlushText(st)
         IN  [flushed EXCEPT !.messages = @ \o
                 <<Message("tool", ResultContent(block.content), << >>, block.tool_use_id)>>]
    ELSE st

RECURSIVE ProcessBlocks(_, _)
ProcessBlocks(st, blocks) ==
    IF blocks = << >> THEN st ELSE ProcessBlocks(ProcessBlock(st, Head(blocks)), Tail(blocks))

\* one Anthropic message of anthroReq.Messages appended to messages
FromAnthropicMessage(messages, m) ==
    IF m.Content.kind = "string"
    THEN messages \o <<Message(m.Role, m.Content.text, << >>, "")>>
    ELSE IF m.Content.kind # "[]interface{}" \/ m.Content.blocks = << >>
    THEN messages \o <<Message(m.Role, << >>, << >>, "")>>
    ELSE LET st == ProcessBlocks([messages |-> messages, textParts |-> << >>,
                                  toolCalls |-> << >>], m.Content.blocks)
         IN  IF m.Role = "assistant" /\ Len(st.toolCalls) > 0
             THEN st.messages \o
                  <<Message("assistant",
                            IF Len(st.textParts) > 0 THEN JoinNewline(st.textParts) ELSE << >>,
                            st.toolCalls, "")>>
             ELSE IF m.Role \in {"user", "assistant"} /\ Len(st.textParts) > 0
             THEN st.messages \o <<Message(m.Role, JoinNewline(st.textParts), << >>, "")>>
             ELSE st.messages

RECURSIVE FromAnthropicFrom(_, _, _)
FromAnthropicFrom(messages, ms, i) ==
    IF i > Len(ms) THEN messages
    ELSE FromAnthropicFrom(FromAnthropicMessage(messages, ms[i]), ms, i + 1)

\* messages of the internal request built from an Anthropic request
FromAnthropicRequest(anthroReq) ==
    FromAnthropicFrom(
        IF ExtractText(anthroReq.System) # << >>
        THEN <<Message("system", ExtractText(anthroReq.System), << >>, "")>>
        ELSE << >>,
        anthroReq.Messages, 1)

\* req.Tools of the canonical requests
ToolLists ==
    { << >>,
      <<Tool("f", "d", "{}"), Tool("g", "", "{\"a\":1}")>> }

\* canonical requests handed to the Anthropic provider
ToolCallLists ==
    { <<ToolCall("t1", "f", a)>> : a \in ArgumentStrings } \cup
    { <<ToolCall("t1", "f", "{}"), ToolCall("t2", "g", "{\"a\":1}")>>,
      <<ToolCall("t2", "g", "{}"), ToolCall("t1", "f", "{}")>> }
CanonicalMessages ==
    { Message("system", <<"s">>, << >>, ""),
      Message("user", <<"u">>, << >>, ""),
      Message("assistant", <<"a">>, << >>, "") } \cup
    { Message("assistant", c, tcs, "") : c \in {<< >>, <<"a">>}, tcs \in ToolCallLists } \cup
    { Message("tool", c, << >>, id) : c \in {<< >>, <<"r">>}, id \in {"t1", "t2"} }

RECURSIVE SeqsOf(_, _)
SeqsOf(S, n) == IF n = 0 THEN { << >> }
                ELSE { <<x>> \o t : x \in S, t \in SeqsOf(S, n - 1) }
SeqsUpTo(S, n) == UNION { SeqsOf(S, k) : k \in 1..n }

CanonicalRequests == SeqsUpTo(CanonicalMessages, MaxCanonMsgs)

\* Anthropic requests received on /v1/messages
AnthropicBlocks ==
    { TextContentBlock(<<"a">>), TextContentBlock(<<"b">>),
      Block("tool_use", << >>, "t1", "f", "{\"a\":1}", "", NoResult),
      Block("tool_result", << >>, "", "", "", "t1", StringResult(<<"r">>)),
      Block("tool_result", << >>, "", "", "", "t1", ListResult(<< <<"x">>, <<"y">> >>)) }
\* lists of three blocks: text around and between tool results
MixedBlockLists ==
    { <<TextContentBlock(<<"a">>),
        Block("tool_result", << >>, "", "", "", "t1", StringResult(<<"r">>)),
        TextContentBlock(<<"b">>)>>,
      <<TextContentBlock(<<"a">>), TextContentBlock(<<"b">>),
        Block("tool_result", << >>, "", "", "", "t2", StringResult(<<"r">>))>>,
      <<Block("tool_result", << >>, "", "", "", "t1", StringResult(<<"r">>)),
        TextContentBlock(<<"a">>),
        Block("tool_result", << >>, "", "", "", "t2", StringResult(<<"r">>))>> }
AnthropicContents ==
    { StringContent(<<"a">>), StringContent(<< >>), ListContent(<< >>) } \cup
    { ListContent(bs) : bs \in SeqsUpTo(AnthropicBlocks, 2) \cup MixedBlockLists }
AnthropicMessages ==
    { AnthropicMessage(r, c) : r \in {"user", "assistant"}, c \in AnthropicContents }
AnthropicRequests ==
    { [System |-> sy, Messages |-> ms, MaxTokens |-> 0, Stream |-> FALSE, Tools |-> << >>] :
         sy \in { NilContent, ListContent(<<TextContentBlock(<<"p">>), TextContentBlock(<<"q">>)>>) },
         ms \in SeqsUpTo(AnthropicMessages, MaxAnthMsgs) }

InitAdapter ==
    /\ cvVia = ""
    /\ \/ /\ cvPC = "canonical"
          /\ cvCanon \in CanonicalRequests
          /\ cvAnth = NoAnthropicRequest
          /\ cvTools \in ToolLists
       \/ /\ cvPC = "anthropic"
          /\ cvAnth \in AnthropicRequests
          /\ cvCanon = << >>
          /\ cvTools = << >>
    /\ IdleRR
    /\ IdleGate
    /\ IdleSSE
    /\ IdleSnoop
    /\ IdleProxy
    /\ IdleRec
    /\ IdleUp
    /\ IdlePeek
    /\ IdleProc
    /\ IdleScan
    /\ IdleHdr

\* AnthropicProvider.ChatCompletion builds anthropicReq
AnthropicChatCompletion ==
    /\ cvPC = "canonical"
    /\ cvAnth' = ChatCompletionRequest(cvCanon, cvTools)
    /\ cvVia' = "ChatCompletion"
    /\ cvPC' = "done"
    /\ UNCHANGED <<cvCanon, cvTools>>
    /\ UNCHANGED <<rrVars, gateVars, sseVars, snoopVars, proxyVars, recVars, upVars, peekVars, procVars, scanVars, hdrVars>>

\* AnthropicProvider.StreamChatCompletion builds anthropicReq
AnthropicStreamChatCompletion ==
    /\ cvPC = "canonical"
    /\ cvAnth' = StreamChatCompletionRequest(cvCanon, cvTools)
    /\ cvVia' = "StreamChatCompletion"
    /\ cvPC' = "done"
    /\ UNCHANGED <<cvCanon, cvTools>>
    /\ UNCHANGED <<rrVars, gateVars, sseVars, snoopVars, proxyVars, recVars, upVars, peekVars, procVars, scanVars, hdrVars>>

\* AnthropicMessagesHandler slow path builds the internal request's messages
AnthropicInConvert ==
    /\ cvPC = "anthropic"
    /\ cvCanon' = FromAnthropicRequest(cvAnth)
    /\ cvVia' = "AnthropicMessagesHandler"
    /\ cvPC' = "done"
    /\ UNCHANGED <<cvAnth, cvTools>>
    /\ UNCHANGED <<rrVars, gateVars, sseVars, snoopVars, proxyVars, recVars, upVars, peekVars, procVars, scanVars, hdrVars>>

NextAdapter ==
    \/ AnthropicChatCompletion
    \/ AnthropicStreamChatCompletion
    \/ AnthropicInConvert

SpecAdapter == InitAdapter /\ [][NextAdapter]_vars

\* ------------------------------------------------------------------------
\* Properties of the protocol adapter (SpecAdapter)
\* ------------------------------------------------------------------------
ProviderBuilt == cvPC = "done" /\ cvVia \in {"ChatCompletion", "StreamChatCompletion"}

\* maximal runs i..j of two or more consecutive role=tool messages
IsToolRun(i, j) ==
    /\ i < j
    /\ \A k \in i..j : cvCanon[k].Role = "tool"
    /\ (i = 1 \/ cvCanon[i - 1].Role # "tool")
    /\ (j = Len(cvCanon) \/ cvCanon[j + 1].Role # "tool")

\* message m holds the tool_result blocks of the run i..j, in order, from
\* position p + 1 on
HoldsRun(m, p, i, j) ==
    /\ cvAnth.Messages[m].Role = "user"
    /\ p + (j - i) + 1 <= Len(cvAnth.Messages[m].Content.blocks)
    /\ \A k \in 0..(j - i) :
          cvAnth.Messages[m].Content.blocks[p + k + 1] =
             Block("tool_result", << >>, "", "", "", cvCanon[i + k].ToolCallID,
                   StringResult(cvCanon[i + k].Content))

RECURSIVE CountType(_, _)
CountType(blocks, type) ==
    IF blocks = << >> THEN 0
    ELSE (IF Head(blocks).type = type THEN 1 ELSE 0) + CountType(Tail(blocks), type)
RECURSIVE CountTypeIn(_, _)
CountTypeIn(msgs, type) ==
    IF msgs = << >> THEN 0
    ELSE CountType(Head(msgs).Content.blocks, type) + CountTypeIn(Tail(msgs), type)

\* C11: a run of n >= 2 consecutive role=tool messages becomes one Anthropic
\* user message holding the n tool_result blocks in the original order, each
\* with tool_use_id = tool_call_id and content = the canonical content; no
\* tool result is written twice.
C11_ToolResultsMerged ==
    ProviderBuilt =>
       /\ \A i \in 1..Len(cvCanon) : \A j \in 1..Len(cvCanon) :
             IsToolRun(i, j) =>
                \E m \in 1..Len(cvAnth.Messages) :
                   \E p \in 0..Len(cvAnth.Messages[m].Content.blocks) : HoldsRun(m, p, i, j)
       /\ CountTypeIn(cvAnth.Messages, "tool_result")
             = Cardinality({k \in 1..Len(cvCanon) : cvCanon[k].Role = "tool"})

\* two tool results after an assistant turn with two tool calls, streamed
C11_Witness ==
    /\ cvPC = "done" /\ cvVia = "StreamChatCompletion"
    /\ Len(cvCanon) = 3
    /\ cvCanon[1].Role = "assistant" /\ Len(cvCanon[1].ToolCalls) = 2
    /\ IsToolRun(2, 3)
    /\ cvCanon[2].ToolCallID # cvCanon[3].ToolCallID
    /\ Len(cvAnth.Messages) = 2
    /\ Len(cvAnth.Messages[2].Content.blocks) = 2

\* the assistant messages with tool calls, and the messages built for them
WithToolCalls == SelectSeq(cvCanon, LAMBDA m : m.Role = "assistant" /\ Len(m.ToolCalls) > 0)
BuiltToolTurns == SelectSeq(cvAnth.Messages, LAMBDA m : m.Content.kind = "[]map")
ToolUsesOf(m) == SelectSeq(m.Content.blocks, LAMBDA b : b.type = "tool_use")

\* the JSON-parse of a string; "undefined" when the string is not JSON
ParsedJSON(str) == IF JSONKind(str) = "invalid" THEN "undefined" ELSE DecodedJSON(str)

\* every tool call of every such message is the tool_use block at the same
\* position, with the input given by Expect
ToolCallsCarried(Expect(_)) ==
    /\ Len(BuiltToolTurns) = Len(WithToolCalls)
    /\ \A k \in 1..Len(WithToolCalls) :
          /\ BuiltToolTurns[k].Role = "assistant"
          /\ Len(ToolUsesOf(BuiltToolTurns[k])) = Len(WithToolCalls[k].ToolCalls)
          /\ \A n \in 1..Len(WithToolCalls[k].ToolCalls) :
                LET tc == WithToolCalls[k].ToolCalls[n] IN
                ToolUsesOf(BuiltToolTurns[k])[n] =
                   Block("tool_use", << >>, tc.ID, tc.Name, Expect(tc.Arguments), "", NoResult)

\* C12: each tool_call of an assistant message appears exactly once as a
\* tool_use block, in order, with the same id and name and with input equal to
\* the JSON-parse of the arguments string, for every arguments string.
C12_ToolCallFidelity == ProviderBuilt => ToolCallsCarried(ParsedJSON)

\* the input of a tool_use block: the parsed object, null for "null", and the
\* empty object for every other string
InputFor(arguments) ==
    CASE JSONKind(arguments) = "object" -> ParsedJSON(arguments)
      [] JSONKind(arguments) = "null" -> "null"
      [] OTHER -> "{}"

\* C12 (amended): each tool_call appears exactly once as a tool_use block, in
\* order, with the same id and name; input is the JSON-parse of the arguments
\* when they are a JSON object or null, and the empty object otherwise.
C12_ToolCallFidelityObjects == ProviderBuilt => ToolCallsCarried(InputFor)

\* two tool calls in one assistant message, one with a non-empty object
C12_Witness ==
    /\ ProviderBuilt
    /\ Len(WithToolCalls) = 1
    /\ Len(WithToolCalls[1].ToolCalls) = 2
    /\ WithToolCalls[1].ToolCalls[2].Arguments = "{\"a\":1}"
    /\ Len(BuiltToolTurns) = 1
    /\ ToolUsesOf(BuiltToolTurns[1])[2].input = "{\"a\":1}"

\* the Anthropic request holds only text and its roles alternate
TextOnly(m) ==
    \/ m.Content.kind = "string"
    \/ /\ m.Content.kind = "[]interface{}"
       /\ \A i \in 1..Len(m.Content.blocks) : m.Content.blocks[i].type = "text"
Alternates(ms) ==
    \A i \in 1..(Len(ms) - 1) : ms[i].Role # ms[i + 1].Role

\* the texts of a block list with "\n" between neighbours
RECURSIVE TextsWithNewlines(_)
TextsWithNewlines(blocks) ==
    IF blocks = << >> THEN << >>
    ELSE IF Len(blocks) = 1 THEN blocks[1].text
    ELSE blocks[1].text \o <<"\n">> \o TextsWithNewlines(Tail(blocks))
SourceText(m) ==
    IF m.Content.kind = "string" THEN m.Content.text ELSE TextsWithNewlines(m.Content.blocks)

NonSystem == SelectSeq(cvCanon, LAMBDA m : m.Role # "system")

\* C13: for an Anthropic request of alternating user/assistant text messages
\* the canonical messages have the same role sequence, one per source
\* message, each with the source's text blocks joined with "\n".
C13_TextRoundTrip ==
    (/\ cvPC = "done" /\ cvVia = "AnthropicMessagesHandler"
     /\ Alternates(cvAnth.Messages)
     /\ \A i \in 1..Len(cvAnth.Messages) : TextOnly(cvAnth.Messages[i]))
    => /\ Len(NonSystem) = Len(cvAnth.Messages)
       /\ \A i \in 1..Len(cvAnth.Messages) :
             /\ NonSystem[i].Role = cvAnth.Messages[i].Role
             /\ NonSystem[i].Content = SourceText(cvAnth.Messages[i])
             /\ NonSystem[i].ToolCalls = << >>

\* a user turn of two text blocks followed by an assistant string
C13_Witness ==
    /\ cvPC = "done" /\ cvVia = "AnthropicMessagesHandler"
    /\ Len(cvAnth.Messages) = 2
    /\ Alternates(cvAnth.Messages)
    /\ cvAnth.Messages[1].Content.kind = "[]interface{}"
    /\ Len(cvAnth.Messages[1].Content.blocks) = 2
    /\ TextOnly(cvAnth.Messages[1])
    /\ cvAnth.Messages[2].Content.kind = "string"
    /\ Len(NonSystem) = 2
    /\ NonSystem[1].Content = <<"a", "\n", "b">>

\* C14: an unknown model is answered 404 with a body shaped by the ingress:
\* error.code = model_not_found on /v1/chat/completions, error.type =
\* not_found_error on /v1/messages; no key is selected, no upstream contacted.
C14_ModelNotFoundShape ==
    pxPC = "404" =>
       /\ pxResp.status = 404
       /\ pxResp.error = "object"
       /\ pxIngress = "openai" => pxResp.code = "model_not_found"
       /\ pxIngress = "anthropic" => pxResp.type = "not_found_error"
       /\ ~pxKeyed
       /\ pxOut = NoOutbound

Routed == pxPC \in {"proxied", "converted"}
OpenAIShaped == {"openai", "deepseek", "glm", "yi", "moonshot"}

\* C15: the fast path is taken iff OpenAI ingress meets a Service of type
\* openai, deepseek, glm, yi or moonshot, or Anthropic ingress meets type
\* anthropic; every other combination takes the slow path.
C15_FastPathIff ==
    Routed =>
       (pxPC = "proxied" <=>
           \/ pxIngress = "openai" /\ pxSvc.Type \in OpenAIShaped
           \/ pxIngress = "anthropic" /\ pxSvc.Type = "anthropic")

\* C15 (amended): the fast path is taken iff OpenAI ingress meets a Service
\* whose type is neither anthropic nor gemini (openai, the vendor aliases and
\* every unrecognised type), or Anthropic ingress meets type anthropic.
C15_FastPathIffProtocol ==
    Routed =>
       (pxPC = "proxied" <=>
           \/ pxIngress = "openai" /\ pxSvc.Type \notin {"anthropic", "gemini"}
           \/ pxIngress = "anthropic" /\ pxSvc.Type = "anthropic")

\* an OpenAI-ingress request to a Service of an unrecognised type, proxied
C15_Witness ==
    /\ pxPC = "proxied"
    /\ pxIngress = "openai"
    /\ pxSvc.Type \notin OpenAIShaped
    /\ pxOut.path = "/chat/completions"

\* ------------------------------------------------------------------------
\* Exit paths of the ingress handlers and the deferred usage recorder
\* ------------------------------------------------------------------------
Ingresses == {"openai", "anthropic"}
\* c.Get("userID"): 0 when the context carries none, 1 the principal
ContextUserIDs == {0, 1}
\* usage an upstream reports; NoUsage when it reports none
NoUsage == [PromptTokens |-> 0, CompletionTokens |-> 0]
Usages == {NoUsage, [PromptTokens |-> 2, CompletionTokens |-> 1]}

\* the locals of a handler call on entry; end remembers how the call ended
NewCall(ingress, userID) ==
    [pc |-> "peek", ingress |-> ingress, userID |-> userID, finalModel |-> "",
     success |-> FALSE, tokensIn |-> 0, tokensOut |-> 0, chunks |-> 0, end |-> ""]

\* the handler body returns (or panics); the deferred recorder is next
Return(call, end) == [call EXCEPT !.pc = "deferred", !.end = end]

\* gorm.Expr("used_amount + ?", delta) in one UPDATE statement
UpdateColumn_Overwrite(used, delta) == delta

UpdateColumn(used, delta) == used + delta

\* stats.Manager.Record: the row built from the recorder's arguments
RequestLog(r, call) ==
    [call |-> r, ServiceModel |-> call.finalModel,
     Status |-> IF call.success THEN 200 ELSE 500,
     PromptTokens |-> call.tokensIn, CompletionTokens |-> call.tokensOut]

InitRec ==
    /\ calls \in [1..MaxCalls -> {NewCall(i, u) : i \in Ingresses, u \in ContextUserIDs}]
    /\ usedAmount = 0
    /\ recordQueue = {}
    /\ requestLogs = {}
    /\ IdleRR /\ IdleGate /\ IdleSSE /\ IdleSnoop /\ IdleProxy /\ IdleConv /\ IdleUp /\ IdlePeek /\ IdleProc /\ IdleScan /\ IdleHdr

\* io.ReadAll or json.Unmarshal of the body fails: 400
BadRequest(r) ==
    /\ calls[r].pc = "peek"
    /\ calls' = [calls EXCEPT ![r] = Return(@, "bad_request")]
    /\ UNCHANGED <<usedAmount, recordQueue, requestLogs>>
    /\ UNCHANGED <<rrVars, gateVars, sseVars, snoopVars, proxyVars, convVars, upVars, peekVars, procVars, scanVars, hdrVars>>

\* no Service carries the requested model name: 404
UnknownModel(r) ==
    /\ calls[r].pc = "peek"
    /\ calls' = [calls EXCEPT ![r] = Return(@, "not_found")]
    /\ UNCHANGED <<usedAmount, recordQueue, requestLogs>>
    /\ UNCHANGED <<rrVars, gateVars, sseVars, snoopVars, proxyVars, convVars, upVars, peekVars, procVars, scanVars, hdrVars>>

\* a Service matches: finalModel is set and the path is decided
MatchService(r, path) ==
    /\ calls[r].pc = "peek"
    /\ calls' = [calls EXCEPT ![r].finalModel = "m", ![r].pc = path]
    /\ UNCHANGED <<usedAmount, recordQueue, requestLogs>>
    /\ UNCHANGED <<rrVars, gateVars, sseVars, snoopVars, proxyVars, convVars, upVars, peekVars, procVars, scanVars, hdrVars>>

\* handleReverseProxy, then success = true. The snooper has added usage to
\* the counters. A failed round trip goes to proxy.ErrorHandler (502) and
\* an upstream error status is relayed: both return normally. An error while
\* the body is copied (the client is gone) makes ReverseProxy.ServeHTTP panic
\* with http.ErrAbortHandler, so the assignment is skipped.
FastPath(r, end, usage) ==
    /\ calls[r].pc = "fast"
    /\ end \in {"served", "bad_gateway", "upstream_error", "disconnect"}
    /\ end \in {"bad_gateway", "upstream_error"} => usage = NoUsage
    /\ calls' = [calls EXCEPT ![r] =
                    Return([@ EXCEPT !.tokensIn = usage.PromptTokens,
                                     !.tokensOut = usage.CompletionTokens,
                                     !.success = (end # "disconnect")], end)]
    /\ UNCHANGED <<usedAmount, recordQueue, requestLogs>>
    /\ UNCHANGED <<rrVars, gateVars, sseVars, snoopVars, proxyVars, convVars, upVars, peekVars, procVars, scanVars, hdrVars>>

\* c.ShouldBindJSON on the slow path: 400 on failure, else req.Stream decides
SlowBind(r, ok, stream) ==
    /\ calls[r].pc = "slow"
    /\ calls' = [calls EXCEPT ![r] =
                    IF ~ok THEN Return(@, "bad_request")
                    ELSE [@ EXCEPT !.pc = IF stream THEN "stream" ELSE "call"]]
    /\ UNCHANGED <<usedAmount, recordQueue, requestLogs>>
    /\ UNCHANGED <<rrVars, gateVars, sseVars, snoopVars, proxyVars, convVars, upVars, peekVars, procVars, scanVars, hdrVars>>

\* p.ChatCompletion: an error (upstream failure, or the cancelled context of
\* a client that left) is answered 500; a reply is answered 200 and sets
\* success, and on the OpenAI ingress the counters from resp.Usage
SlowNonStream(r, end, usage) ==
    /\ calls[r].pc = "call"
    /\ end \in {"served", "upstream_error", "disconnect"}
    /\ end # "served" => usage = NoUsage
    /\ calls' = [calls EXCEPT ![r] =
                    IF end # "served" THEN Return(@, end)
                    ELSE IF @.ingress = "openai"
                    THEN Return([@ EXCEPT !.success = TRUE,
                                          !.tokensIn = usage.PromptTokens,
                                          !.tokensOut = usage.CompletionTokens], end)
                    ELSE Return([@ EXCEPT !.success = TRUE], end)]
    /\ UNCHANGED <<usedAmount, recordQueue, requestLogs>>
    /\ UNCHANGED <<rrVars, gateVars, sseVars, snoopVars, proxyVars, convVars, upVars, peekVars, procVars, scanVars, hdrVars>>

\* c.Stream, case chunk: the OpenAI ingress adds chunk.Usage and sets success;
\* the Anthropic ingress writes events and touches neither
StreamChunk(r, usage) ==
    /\ calls[r].pc = "stream"
    /\ calls[r].chunks < MaxStreamed
    /\ calls' = [calls EXCEPT ![r] =
                    IF @.ingress = "openai"
                    THEN [@ EXCEPT !.chunks = @ + 1, !.success = TRUE,
                                   !.tokensIn = @ + usage.PromptTokens,
                                   !.tokensOut = @ + usage.CompletionTokens]
                    ELSE [@ EXCEPT !.chunks = @ + 1]]
    /\ UNCHANGED <<usedAmount, recordQueue, requestLogs>>
    /\ UNCHANGED <<rrVars, gateVars, sseVars, snoopVars, proxyVars, convVars, upVars, peekVars, procVars, scanVars, hdrVars>>

\* c.Stream returns false: outputChan closed (the stream is complete), an
\* error from errChan (providers fail only before their first chunk), or
\* the request context is done
StreamEnd(r, end) ==
    /\ calls[r].pc = "stream"
    /\ end \in {"served", "upstream_error", "disconnect"}
    /\ end = "upstream_error" => calls[r].chunks = 0
    /\ calls' = [calls EXCEPT ![r] = Return(@, end)]
    /\ UNCHANGED <<usedAmount, recordQueue, requestLogs>>
    /\ UNCHANGED <<rrVars, gateVars, sseVars, snoopVars, proxyVars, convVars, upVars, peekVars, procVars, scanVars, hdrVars>>

\* the deferred function: Record and the quota UPDATE, only with finalModel
Recorder(r) ==
    /\ calls[r].pc = "deferred"
    /\ calls' = [calls EXCEPT ![r].pc = "done"]
    /\ IF calls[r].finalModel # ""
       THEN /\ recordQueue' = recordQueue \cup {RequestLog(r, calls[r])}
            /\ usedAmount' =
                 IF calls[r].userID > 0 /\ calls[r].success
                 THEN UpdateColumn(usedAmount, calls[r].tokensIn + calls[r].tokensOut)
                 ELSE usedAmount
       ELSE UNCHANGED <<recordQueue, usedAmount>>
    /\ UNCHANGED requestLogs
    /\ UNCHANGED <<rrVars, gateVars, sseVars, snoopVars, proxyVars, convVars, upVars, peekVars, procVars, scanVars, hdrVars>>

\* the goroutine started by Record inserts the row
CreateRequestLog(log) ==
    /\ log \in recordQueue
    /\ recordQueue' = recordQueue \ {log}
    /\ requestLogs' = requestLogs \cup {log}
    /\ UNCHANGED <<calls, usedAmount>>
    /\ UNCHANGED <<rrVars, gateVars, sseVars, snoopVars, proxyVars, convVars, upVars, peekVars, procVars, scanVars, hdrVars>>

NextRec ==
    \/ \E r \in DOMAIN calls : BadRequest(r)
    \/ \E r \in DOMAIN calls : UnknownModel(r)
    \/ \E r \in DOMAIN calls, path \in {"fast", "slow"} : MatchService(r, path)
    \/ \E r \in DOMAIN calls, usage \in Usages,
          end \in {"served", "bad_gateway", "upstream_error", "disconnect"} :
          FastPath(r, end, usage)
    \/ \E r \in DOMAIN calls, ok \in BOOLEAN, stream \in BOOLEAN : SlowBind(r, ok, stream)
    \/ \E r \in DOMAIN calls, usage \in Usages,
          end \in {"served", "upstream_error", "disconnect"} :
          SlowNonStream(r, end, usage)
    \/ \E r \in DOMAIN calls, usage \in Usages : StreamChunk(r, usage)
    \/ \E r \in DOMAIN calls, end \in {"served", "upstream_error", "disconnect"} :
          StreamEnd(r, end)
    \/ \E r \in DOMAIN calls : Recorder(r)
    \/ \E log \in recordQueue : CreateRequestLog(log)

SpecRec == InitRec /\ [][NextRec]_vars

\* ------------------------------------------------------------------------
\* Properties of the usage recorder (SpecRec)
\* ------------------------------------------------------------------------
\* the Usage Records handed to stats.Record for call r, inserted or not yet
RecordsOf(r) == {log \in recordQueue \cup requestLogs : log.call = r}

Finished(r) == calls[r].pc = "done"

\* C16: on every exit path of the two handlers (400, 404, fast path, slow
\* path, upstream error, client disconnect) the recorder appends exactly one
\* Usage Record for the request.
C16_RecordOnEveryExit ==
    \A r \in DOMAIN calls : Finished(r) => Cardinality(RecordsOf(r)) = 1

\* the request was answered completely to a client that stayed connected
Served(r) == calls[r].end = "served"

\* C17: a request served successfully (fast path, slow path non-streaming or
\* streaming, either ingress) gets a Usage Record with http_status 200, and
\* with a principal its used_amount grows by prompt_tokens + completion_tokens.
C17_ServedIsRecorded200 ==
    /\ [](\A r \in DOMAIN calls :
            Finished(r) /\ Served(r) => \E log \in RecordsOf(r) : log.Status = 200)
    /\ [][\A r \in DOMAIN calls :
            Recorder(r) /\ Served(r) /\ calls[r].userID # 0
                => usedAmount' = usedAmount + calls[r].tokensIn + calls[r].tokensOut]_vars

\* the request ended by a client disconnect, a failed upstream connection
\* (502) or an upstream error
Failed(r) == calls[r].end \in {"disconnect", "bad_gateway", "upstream_error"}

\* C18: a request that ends by client disconnect, upstream connection failure
\* or upstream error gets a Usage Record with the counters so far and
\* http_status 500, and used_amount is left unchanged, also on the fast path
\* and after the first streamed chunk.
C18_FailedIsRecorded500 ==
    /\ [](\A r \in DOMAIN calls :
            Finished(r) /\ Failed(r)
                => \E log \in RecordsOf(r) :
                      /\ log.Status = 500
                      /\ log.PromptTokens = calls[r].tokensIn
                      /\ log.CompletionTokens = calls[r].tokensOut)
    /\ [][\A r \in DOMAIN calls :
            Recorder(r) /\ Failed(r) => usedAmount' = usedAmount]_vars

\* the Usage Records of successful requests of the principal
Credited ==
    {log \in recordQueue \cup requestLogs :
        log.Status = 200 /\ calls[log.call].userID # 0}

RECURSIVE SumTokens(_)
SumTokens(logs) ==
    IF logs = {} THEN 0
    ELSE LET log == CHOOSE l \in logs : TRUE IN
         log.PromptTokens + log.CompletionTokens + SumTokens(logs \ {log})

\* C19: for any interleaving of concurrently finishing successful requests of
\* one principal, used_amount is its initial value (0) plus the sum of
\* prompt_tokens + completion_tokens over them: nothing lost, nothing twice.
C19_AtomicIncrement == usedAmount = SumTokens(Credited)

\* two successful requests of the principal with usage have both run their
\* recorder before either log row was inserted
C19_Witness ==
    /\ Cardinality({log \in Credited \cap recordQueue : log.PromptTokens > 0}) >= 2
    /\ usedAmount >= 6

\* ------------------------------------------------------------------------
\* ChatCompletionsHandler: slow-path streaming loop
\* ------------------------------------------------------------------------
\* the handler is in c.Stream; the provider goroutine has been started with
\* two unbuffered channels and the request context
InitChat ==
    /\ provPC = "connect"
    /\ provErr = "none"
    /\ outputChan = OpenChan
    /\ errChan = OpenChan
    /\ ctxDone = FALSE
    /\ streamPC = "chat"
    /\ blockIndex = 0
    /\ inToolUse = FALSE
    /\ events = << >>
    /\ nSent = 0
    /\ sent = << >>
    /\ IdleRR /\ IdleGate /\ IdleSnoop /\ IdleProxy /\ IdleRest

\* c.SSEvent("", chunk): one data frame holding the chunk
DataEvent(chunk) == [ev |-> "data", index |-> 0, kind |-> "chunk", chunk |-> chunk]

\* select: case chunk, ok := <-outputChan with ok: c.SSEvent("", chunk)
ChatRecvChunk ==
    /\ streamPC = "chat"
    /\ outputChan.buf # << >>
    /\ events' = Append(events, DataEvent(outputChan.buf[1]))
    /\ outputChan' = Receive(outputChan)
    /\ provPC' = "scan"
    /\ UNCHANGED <<provErr, errChan, ctxDone, streamPC, blockIndex, inToolUse, nSent, sent>>
    /\ UNCHANGED <<rrVars, gateVars, snoopVars, proxyVars, restVars>>

\* select: case chunk, ok := <-outputChan with !ok: c.SSEvent("", "[DONE]")
ChatRecvOutputClosed ==
    /\ streamPC = "chat"
    /\ outputChan.closed
    /\ events' = Append(events, Ev("data", 0, "[DONE]"))
    /\ streamPC' = "returned"
    /\ UNCHANGED <<provErr, provPC, outputChan, errChan, ctxDone, blockIndex, inToolUse, nSent, sent>>
    /\ UNCHANGED <<rrVars, gateVars, snoopVars, proxyVars, restVars>>

\* select: case err, ok := <-errChan with ok: the handler returns
ChatRecvErr ==
    /\ streamPC = "chat"
    /\ ~errChan.nil
    /\ errChan.buf # << >>
    /\ errChan' = [errChan EXCEPT !.buf = << >>]
    /\ provPC' = "closeErr"
    /\ streamPC' = "returned"
    /\ UNCHANGED <<provErr, outputChan, ctxDone, blockIndex, inToolUse, events, nSent, sent>>
    /\ UNCHANGED <<rrVars, gateVars, snoopVars, proxyVars, restVars>>

\* select: case err, ok := <-errChan with !ok: errChan = nil, keep streaming
ChatRecvErrClosed ==
    /\ streamPC = "chat"
    /\ ~errChan.nil
    /\ errChan.closed
    /\ errChan' = [errChan EXCEPT !.nil = TRUE]
    /\ UNCHANGED <<provErr, provPC, outputChan, ctxDone, streamPC, blockIndex, inToolUse,
                   events, nSent, sent>>
    /\ UNCHANGED <<rrVars, gateVars, snoopVars, proxyVars, restVars>>

\* select: case <-c.Request.Context().Done(): the handler returns
ChatRecvCtxDone ==
    /\ streamPC = "chat"
    /\ ctxDone
    /\ streamPC' = "returned"
    /\ UNCHANGED <<provErr, provPC, outputChan, errChan, ctxDone, blockIndex, inToolUse,
                   events, nSent, sent>>
    /\ UNCHANGED <<rrVars, gateVars, snoopVars, proxyVars, restVars>>

ChatHandlerStep ==
    \/ ChatRecvChunk
    \/ ChatRecvOutputClosed
    \/ ChatRecvErr
    \/ ChatRecvErrClosed
    \/ ChatRecvCtxDone

NextChat == ProviderStep \/ ChatHandlerStep \/ ClientDisconnect

SpecChat == InitChat /\ [][NextChat]_vars

\* both goroutines keep being scheduled; the upstream body ends, at the
\* latest when the cancelled context fails the provider's next read
SpecChatFair ==
    /\ SpecChat
    /\ WF_vars(ChatHandlerStep)
    /\ WF_vars(ProviderReturn \/ ProviderCloseErrChan \/ ProviderCloseOutputChan)

\* C20: after a client disconnect during a slow-path stream the handler stops
\* reading, and the provider goroutine eventually returns and closes the
\* stream channel and the error channel; it never stays blocked on a send.
C20_ProviderExitsAfterDisconnect ==
    [](ctxDone => <>(/\ streamPC = "returned"
                     /\ provPC = "exited"
                     /\ outputChan.closed
                     /\ errChan.closed))

\* ------------------------------------------------------------------------
\* Slow path: answering an upstream reply
\* ------------------------------------------------------------------------
\* the longest body preview of a decode error
PreviewCap == 200

\* a body of n bytes
Repeat(n) == [i \in 1..n |-> "x"]

UpstreamStatuses == {200, 201, 404, 429, 500}
BodyLens == {0, 1, PreviewCap, PreviewCap + 1}
UpstreamReplies ==
    { [status |-> st, body |-> Repeat(n), decodes |-> d] :
        st \in UpstreamStatuses, n \in BodyLens, d \in BOOLEAN }

\* the slow path is taken when the Service's protocol is not the ingress's
SlowCalls ==
    { [ingress |-> i, provider |-> p, stream |-> st] :
        i \in Ingresses, p \in {"openai", "anthropic", "gemini"}, st \in BOOLEAN }
    \ { [ingress |-> i, provider |-> i, stream |-> st] : i \in Ingresses, st \in BOOLEAN }

\* preview := string(bodyBytes); if len(preview) > 200 { preview[:200] + "..." }
Preview(bodyBytes) ==
    IF Len(bodyBytes) > PreviewCap
    THEN [body |-> SubSeq(bodyBytes, 1, PreviewCap), ellipsis |-> TRUE]
    ELSE [body |-> bodyBytes, ellipsis |-> FALSE]

\* the error of Provider.ChatCompletion for a reply:
\* "<provider> API error: <status> - <body>" when the status is not 200,
\* "failed to decode ... Response body: <preview>" when the body does not decode
ChatCompletionError(provider, reply) ==
    IF reply.status # 200
    THEN [provider |-> provider, what |-> "API error", status |-> reply.status,
          body |-> reply.body, ellipsis |-> FALSE]
    ELSE IF ~reply.decodes
    THEN [provider |-> provider, what |-> "failed to decode", status |-> 0,
          body |-> Preview(reply.body).body, ellipsis |-> Preview(reply.body).ellipsis]
    ELSE NoError

\* the error of Provider.StreamChatCompletion: "<provider> stream error:
\* <status> - <body>" when the status is not 200; bad frames are skipped
StreamChatCompletionError(provider, reply) ==
    IF reply.status # 200
    THEN [provider |-> provider, what |-> "stream error", status |-> reply.status,
          body |-> reply.body, ellipsis |-> FALSE]
    ELSE NoError

InitUpErr ==
    /\ upPC = "call"
    /\ upCall \in SlowCalls
    /\ upReply \in UpstreamReplies
    /\ upErr = NoError
    /\ upResp = NoAnswer
    /\ IdleRR /\ IdleGate /\ IdleSSE /\ IdleSnoop /\ IdleProxy /\ IdleConv /\ IdleRec /\ IdlePeek /\ IdleProc /\ IdleScan /\ IdleHdr

\* p.ChatCompletion returns
ProviderChatCompletion ==
    /\ upPC = "call"
    /\ ~upCall.stream
    /\ upErr' = ChatCompletionError(upCall.provider, upReply)
    /\ upPC' = "answer"
    /\ UNCHANGED <<upCall, upReply, upResp>>
    /\ UNCHANGED <<rrVars, gateVars, sseVars, snoopVars, proxyVars, convVars, recVars, peekVars, procVars, scanVars, hdrVars>>

\* p.StreamChatCompletion has the upstream's status line
ProviderStreamChatCompletion ==
    /\ upPC = "call"
    /\ upCall.stream
    /\ upErr' = StreamChatCompletionError(upCall.provider, upReply)
    /\ upPC' = "answer"
    /\ UNCHANGED <<upCall, upReply, upResp>>
    /\ UNCHANGED <<rrVars, gateVars, sseVars, snoopVars, proxyVars, convVars, recVars, peekVars, procVars, scanVars, hdrVars>>

\* non-streaming: c.JSON(500, err.Error()) or c.JSON(200, resp)
AnswerNonStream ==
    /\ upPC = "answer"
    /\ ~upCall.stream
    /\ upResp' = IF upErr # NoError
                 THEN [status |-> 500, message |-> upErr, events |-> 0]
                 ELSE [status |-> 200, message |-> NoError, events |-> 0]
    /\ upPC' = "done"
    /\ UNCHANGED <<upCall, upReply, upErr>>
    /\ UNCHANGED <<rrVars, gateVars, sseVars, snoopVars, proxyVars, convVars, recVars, peekVars, procVars, scanVars, hdrVars>>

\* streaming: the Anthropic ingress has already flushed message_start and
\* content_block_start; an error from errChan is logged and the callback
\* returns false, so the response keeps its status 200 and gets no message
AnswerStream ==
    /\ upPC = "answer"
    /\ upCall.stream
    /\ LET written == IF upCall.ingress = "anthropic" THEN 2 ELSE 0 IN
       upResp' = IF upErr # NoError
                 THEN [status |-> 200, message |-> NoError, events |-> written]
                 ELSE [status |-> 200, message |-> NoError, events |-> written + 1]
    /\ upPC' = "done"
    /\ UNCHANGED <<upCall, upReply, upErr>>
    /\ UNCHANGED <<rrVars, gateVars, sseVars, snoopVars, proxyVars, convVars, recVars, peekVars, procVars, scanVars, hdrVars>>

NextUpErr ==
    \/ ProviderChatCompletion
    \/ ProviderStreamChatCompletion
    \/ AnswerNonStream
    \/ AnswerStream

SpecUpErr == InitUpErr /\ [][NextUpErr]_vars

\* C21: on the slow path a non-2xx upstream reply is answered 500 with a
\* message that holds the upstream status and at most 200 bytes of the
\* upstream body, in non-streaming and in streaming mode.
C21_UpstreamErrorIs500 ==
    (upPC = "done" /\ upReply.status \notin 200..299)
        => /\ upResp.status = 500
           /\ upResp.message.status = upReply.status
           /\ Len(upResp.message.body) <= 200
           /\ upResp.message.body = SubSeq(upReply.body, 1, Len(upResp.message.body))

\* ------------------------------------------------------------------------
\* Peeking the request body
\* ------------------------------------------------------------------------
MiB == 1024 * 1024
\* body sizes a client sends, up to 1 GiB
BodySizes == {0, 1, 4 * MiB, 4 * MiB + 1, 1024 * MiB}

PeekRequests ==
    { [ingress |-> i, body |-> [size |-> n, bytes |-> "b"], readable |-> rd,
       json |-> j, known |-> k] :
        i \in Ingresses, n \in BodySizes, rd \in BOOLEAN, j \in BOOLEAN, k \in BOOLEAN }

InitPeek ==
    /\ pkPC = "read"
    /\ pkReq \in PeekRequests
    /\ pkCtx = FreshCtx
    /\ IdleRR /\ IdleGate /\ IdleSSE /\ IdleSnoop /\ IdleProxy /\ IdleConv /\ IdleRec /\ IdleUp /\ IdleProc /\ IdleScan /\ IdleHdr

\* io.ReadAll(c.Request.Body), whatever its length; 400 when the read fails;
\* else the bytes are wrapped again as c.Request.Body
ReadBody ==
    /\ pkPC = "read"
    /\ IF pkReq.readable
       THEN /\ pkCtx' = [pkCtx EXCEPT !.reads = @ + 1, !.attached = pkReq.body]
            /\ pkPC' = "extract"
       ELSE /\ pkCtx' = [pkCtx EXCEPT !.reads = @ + 1, !.status = 400]
            /\ pkPC' = "done"
    /\ UNCHANGED pkReq
    /\ UNCHANGED <<rrVars, gateVars, sseVars, snoopVars, proxyVars, convVars, recVars, upVars, procVars, scanVars, hdrVars>>

\* json.Unmarshal(bodyBytes, &baseReq): 400 when it is not JSON
ExtractModel ==
    /\ pkPC = "extract"
    /\ IF pkReq.json
       THEN pkPC' = "find" /\ UNCHANGED pkCtx
       ELSE pkPC' = "done" /\ pkCtx' = [pkCtx EXCEPT !.status = 400]
    /\ UNCHANGED pkReq
    /\ UNCHANGED <<rrVars, gateVars, sseVars, snoopVars, proxyVars, convVars, recVars, upVars, procVars, scanVars, hdrVars>>

\* the Service lookup by model name: 404 when none matches
LookupService ==
    /\ pkPC = "find"
    /\ IF pkReq.known
       THEN pkPC' = "next" /\ pkCtx' = [pkCtx EXCEPT !.routed = TRUE]
       ELSE pkPC' = "done" /\ pkCtx' = [pkCtx EXCEPT !.status = 404]
    /\ UNCHANGED pkReq
    /\ UNCHANGED <<rrVars, gateVars, sseVars, snoopVars, proxyVars, convVars, recVars, upVars, procVars, scanVars, hdrVars>>

\* the next stage (the proxy or ShouldBindJSON) reads c.Request.Body
DownstreamRead ==
    /\ pkPC = "next"
    /\ pkCtx' = [pkCtx EXCEPT !.downstream = pkCtx.attached]
    /\ pkPC' = "done"
    /\ UNCHANGED pkReq
    /\ UNCHANGED <<rrVars, gateVars, sseVars, snoopVars, proxyVars, convVars, recVars, upVars, procVars, scanVars, hdrVars>>

NextPeek ==
    \/ ReadBody
    \/ ExtractModel
    \/ LookupService
    \/ DownstreamRead

SpecPeek == InitPeek /\ [][NextPeek]_vars

\* C22: a body over the size cap is answered 413 and is neither routed nor
\* forwarded (1 GiB is over any cap an implementation chooses); a body of at
\* most 4 MiB is read once and reaches the next stage unchanged.
C22_BodyCap ==
    pkPC = "done" =>
        /\ pkReq.body.size = 1024 * MiB
              => /\ pkCtx.status = 413
                 /\ ~pkCtx.routed
                 /\ pkCtx.downstream = NoBody
        /\ (pkReq.body.size <= 4 * MiB /\ pkCtx.downstream # NoBody)
              => /\ pkCtx.reads = 1
                 /\ pkCtx.downstream = pkReq.body

\* ------------------------------------------------------------------------
\* The usage recorder and the end of the server process
\* ------------------------------------------------------------------------
\* main returns from r.Run, or the process is signalled: no signal handler,
\* no http.Server.Shutdown and nothing that waits for the goroutines Record
\* started; they end with the process
ProcessExit ==
    /\ process = "running"
    /\ process' = "exited"
    /\ UNCHANGED <<rrVars, gateVars, sseVars, snoopVars, proxyVars, convVars, recVars,
                   upVars, peekVars, scanVars, hdrVars>>

NextShutdown ==
    \/ process = "running" /\ NextRec
    \/ ProcessExit

SpecShutdown == InitRec /\ [][NextShutdown]_vars

\* a started goroutine runs as long as the process does
SpecShutdownFair ==
    /\ SpecShutdown
    /\ WF_vars(process = "running" /\ \E log \in recordQueue : CreateRequestLog(log))

\* C23: every record handed to Record is eventually persisted, also when the
\* server shuts down right after the handler has returned.
C23_RecordsPersisted ==
    \A r \in 1..MaxCalls :
        []((\E log \in recordQueue : log.call = r)
              => <>(\E log \in requestLogs : log.call = r))

\* ------------------------------------------------------------------------
\* Properties of the Anthropic-egress translator's blocks (SpecSSE)
\* ------------------------------------------------------------------------
IsToolStart(e) == e.ev = "content_block_start" /\ e.kind = "tool_use"

IsBlockEdge(e) == e.ev \in {"content_block_start", "content_block_stop"}

\* C24: a tool_use block is opened only right after content_block_stop of the
\* block that was open, at that block's index plus one: whether that block is
\* the initial text block, a text block with text, a tool_use block, or a text
\* block opened after an earlier tool block.
C24_ToolBlockOpensAfterStop ==
    \A i \in 1..Len(events) :
        IsToolStart(events[i])
            => /\ i > 1
               /\ events[i - 1] = Ev("content_block_stop", events[i].index - 1, "")

\* the chunk the handler is about to receive
Incoming == outputChan.buf[1]

\* the events one step appends
Written == SubSeq(events', Len(events) + 1, Len(events'))

\* the block opened last in evs is still open, has index idx and kind k
OpenBlock(evs, idx, k) ==
    \E i \in 1..Len(evs) :
        /\ evs[i].ev = "content_block_start"
        /\ evs[i].index = idx
        /\ evs[i].kind = k
        /\ \A j \in (i + 1)..Len(evs) : ~IsBlockEdge(evs[j])

\* C25: text arriving while in_tool_use is set writes content_block_stop for
\* the tool block, content_block_start of a text block at index + 1 and the
\* text_delta at that index, and clears in_tool_use; text arriving while it is
\* not set writes only a text_delta at the current index, where a text block
\* is open.
C25_TextAfterTool ==
    [][(RecvChunk /\ Incoming.choices > 0 /\ Incoming.Content # "")
         => IF inToolUse
            THEN /\ Len(Written) >= 3
                 /\ SubSeq(Written, 1, 3) =
                       <<Ev("content_block_stop", blockIndex, ""),
                         Ev("content_block_start", blockIndex + 1, "text"),
                         Ev("content_block_delta", blockIndex + 1, "text_delta")>>
                 /\ OpenBlock(events, blockIndex, "tool_use")
                 /\ ~Incoming.tc.present => (~inToolUse' /\ Len(Written) = 3)
            ELSE /\ Len(Written) >= 1
                 /\ Written[1] = Ev("content_block_delta", blockIndex, "text_delta")
                 /\ OpenBlock(events, blockIndex, "text")
                 /\ ~Incoming.tc.present => (~inToolUse' /\ Len(Written) = 1)]_vars

\* text came after a tool block: that block is closed, a text block at the
\* next index holds the delta
C25_Witness ==
    /\ ~inToolUse
    /\ blockIndex >= 2
    /\ Len(events) >= 3
    /\ events[Len(events)] = Ev("content_block_delta", blockIndex, "text_delta")
    /\ events[Len(events) - 1] = Ev("content_block_start", blockIndex, "text")
    /\ events[Len(events) - 2] = Ev("content_block_stop", blockIndex - 1, "")

\* the ids of the tool_use blocks opened in evs
ToolIds(evs) == {evs[i].id : i \in {j \in 1..Len(evs) : IsToolStart(evs[j])}}

\* the id of the tool call that is open when in_tool_use is set
OpenToolId ==
    LET starts == {j \in 1..Len(events) : IsToolStart(events[j])} IN
    IF inToolUse /\ starts # {}
    THEN events[CHOOSE j \in starts : \A k \in starts : k <= j].id
    ELSE ""

\* C26: a tool-call fragment opens a tool_use block only when its id is new
\* in the stream; a fragment without id, or with the id of the open tool call,
\* writes just an input_json_delta at the current index, the index of an open
\* tool_use block started with a non-empty id (and the name that came with it).
C26_ToolFragments ==
    [][(RecvChunk /\ Incoming.choices > 0 /\ Incoming.tc.present)
         => LET opens == \E i \in 1..Len(Written) : IsToolStart(Written[i])
                id == Incoming.tc.ID
            IN  /\ opens => (id # "" /\ id \notin ToolIds(events))
                /\ (id = "" \/ id = OpenToolId)
                      => /\ ~opens
                         /\ Incoming.tc.Arguments # ""
                               => /\ Len(Written) >= 1
                                  /\ Written[Len(Written)] =
                                        Ev("content_block_delta", blockIndex', "input_json_delta")
                                  /\ \E i \in 1..Len(events') :
                                        /\ IsToolStart(events'[i])
                                        /\ events'[i].index = blockIndex'
                                        /\ events'[i].id # ""
                                        /\ \A j \in (i + 1)..Len(events') :
                                              ~IsBlockEdge(events'[j])]_vars

\* ------------------------------------------------------------------------
\* Slow-path streaming of either ingress: order of the output
\* ------------------------------------------------------------------------
InitStream == InitSSE \/ InitChat

NextStream == ProviderStep \/ HandlerStep \/ ChatHandlerStep \/ ClientDisconnect

\* a streaming slow-path request on /v1/messages or on /v1/chat/completions
SpecStream == InitStream /\ [][NextStream]_vars

\* chunks the handler has taken from outputChan
Received == Len(sent) - Len(outputChan.buf)

\* the events of chunks i..k of the sequence, translated one after the other
RECURSIVE TranslateFrom(_, _, _, _, _)
TranslateFrom(chunks, i, k, bi, itu) ==
    IF i > k THEN << >>
    ELSE LET out == EmitChunk(chunks[i], bi, itu) IN
         out.ev \o TranslateFrom(chunks, i + 1, k, out.blockIndex, out.inToolUse)

\* events is seq, or seq followed by n closing events, the last being closing
BodyThenClose(seq, n, closing) ==
    \/ events = seq
    \/ /\ Len(events) = Len(seq) + n
       /\ SubSeq(events, 1, Len(seq)) = seq
       /\ events[Len(events)] = closing

AnthropicOrder ==
    \/ events = << >> /\ Received = 0
    \/ BodyThenClose(<<Ev("message_start", 0, ""), Ev("content_block_start", 0, "text")>>
                        \o TranslateFrom(sent, 1, Received, 0, FALSE),
                     3, Ev("message_stop", 0, ""))

ChatOrder ==
    BodyThenClose([i \in 1..Received |-> DataEvent(sent[i])], 1, Ev("data", 0, "[DONE]"))

\* C27: the events written follow the order in which the provider sent the
\* chunks: the output of chunk i is complete before any output of chunk i+1,
\* and no chunk's output is written twice.
C27_OutputFollowsChunkOrder ==
    /\ streamPC \in {"start", "stream"} => AnthropicOrder
    /\ streamPC = "chat" => ChatOrder
    /\ streamPC = "returned" => (AnthropicOrder \/ ChatOrder)

\* a finished Anthropic-egress stream of a text chunk and then a tool call
C27_Witness ==
    /\ streamPC = "returned"
    /\ Received >= 2
    /\ sent[1].Content = "t" /\ ~sent[1].tc.present
    /\ sent[2].tc.ID = "a"
    /\ Len(events) >= 8
    /\ events[1].ev = "message_start"
    /\ events[3] = Ev("content_block_delta", 0, "text_delta")
    /\ events[5] = ToolUseStart(1, "a")
    /\ events[Len(events)].ev = "message_stop"

\* ------------------------------------------------------------------------
\* Service resolution against a concurrent reconfiguration (SpecRR)
\* ------------------------------------------------------------------------
\* the Service of the snapshot the request resolved, as that snapshot holds it
SnapshotService(r) == arrays[req[r].entry.arr][req[r].entry.i]

Range(f) == {f[i] : i \in DOMAIN f}

\* C28: a request resolving its Service while UpdateServicesHandler runs sees
\* the complete Service set from before or from after the swap, and its
\* protocol decision, key pool, base_url and target_model all come from the
\* Service of that one snapshot.
C28_OneSnapshot ==
    \A r \in 1..MaxReqs :
        /\ (req[r].pc = "done" /\ req[r].status = 404)
              => \E a \in 1..Len(arrays) : FirstMatch(arrays[a], req[r].model) = 0
        /\ req[r].entry # NoPtr
              => /\ req[r].entry.arr \in 1..Len(arrays)
                 /\ req[r].entry.i = FirstMatch(arrays[req[r].entry.arr], req[r].model)
        /\ req[r].pc \in {"selected", "done"} /\ req[r].entry # NoPtr
              => /\ req[r].protocol = getServiceProtocol(SnapshotService(r).Type)
                 /\ IF SnapshotService(r).APIKeys # << >>
                    THEN req[r].key \in Range(SnapshotService(r).APIKeys)
                    ELSE req[r].key = SnapshotService(r).APIKey
        /\ req[r].pc = "done" /\ req[r].entry # NoPtr
              => /\ req[r].baseURL = SnapshotService(r).BaseURL
                 /\ req[r].target = SnapshotService(r).ModelName

\* a request resolved m1 before the swap and was dispatched after it, with
\* the old Service's values, while the new set gives m1 another upstream
C28_Witness ==
    \E r \in 1..MaxReqs :
        /\ req[r].pc = "done" /\ req[r].status = 200
        /\ req[r].entry.arr = 1
        /\ config = 2
        /\ req[r].baseURL = "u0"
        /\ req[r].protocol = "openai"
        /\ LET i == FirstMatch(arrays[config], req[r].model) IN
           i # 0 /\ arrays[config][i].BaseURL # "u0"

\* ------------------------------------------------------------------------
\* A provider scanning the upstream's SSE body
\* ------------------------------------------------------------------------
\* a line of the body: a data frame that decodes into a chunk, a data line
\* that does not decode, a data line that does not decode and is longer than
\* the scanner's token limit (bufio.MaxScanTokenSize, 64 KiB), or [DONE]
GoodFrame(chunk) == [kind |-> "data", chunk |-> chunk]
BadFrame == [kind |-> "bad", chunk |-> NoChoices]
LongBadFrame == [kind |-> "bad_long", chunk |-> NoChoices]
DoneFrame == [kind |-> "done", chunk |-> NoChoices]

FrameChunks ==
    { [choices |-> 1, Content |-> "t", tc |-> NoToolCall],
      [choices |-> 1, Content |-> "", tc |-> [present |-> TRUE, ID |-> "a", Arguments |-> "j"]] }

Frames == {GoodFrame(c) : c \in FrameChunks} \cup {BadFrame, LongBadFrame, DoneFrame}

UpstreamBodiesSSE == UNION { [1..n -> Frames] : n \in 0..MaxFrames }

InitFrames ==
    /\ IdleSSE /\ IdleRR /\ IdleGate /\ IdleSnoop /\ IdleProxy
    /\ IdleConv /\ IdleRec /\ IdleUp /\ IdlePeek /\ IdleProc /\ IdleHdr
    /\ frames \in UpstreamBodiesSSE
    /\ scanPos = 0

\* scanner.Scan() returns true: the line is skipped (continue), ends the loop
\* ([DONE]), or is decoded and sent on outputChan
ScanLine ==
    /\ provPC = "scan"
    /\ scanPos < Len(frames)
    /\ frames[scanPos + 1].kind # "bad_long"
    /\ scanPos' = scanPos + 1
    /\ LET f == frames[scanPos + 1] IN
       CASE f.kind = "data" ->
               /\ provPC' = "send"
               /\ outputChan' = [outputChan EXCEPT !.buf = <<f.chunk>>]
               /\ nSent' = nSent + 1
               /\ sent' = Append(sent, f.chunk)
               /\ UNCHANGED provErr
         [] f.kind = "bad" ->
               UNCHANGED <<provPC, outputChan, nSent, sent, provErr>>
         [] f.kind = "done" ->
               /\ provPC' = "closeErr"
               /\ provErr' = "nil"
               /\ UNCHANGED <<outputChan, nSent, sent>>
    /\ UNCHANGED <<errChan, ctxDone, streamPC, blockIndex, inToolUse, events, frames>>
    /\ UNCHANGED <<rrVars, gateVars, snoopVars, proxyVars, convVars, recVars, upVars,
                   peekVars, procVars, hdrVars>>

\* scanner.Scan() returns false: the body has ended, or the next line is
\* longer than the token limit (bufio.ErrTooLong); StreamChatCompletion
\* returns nil
ScanStops ==
    /\ provPC = "scan"
    /\ IF scanPos < Len(frames) THEN frames[scanPos + 1].kind = "bad_long" ELSE TRUE
    /\ provPC' = "closeErr"
    /\ provErr' = "nil"
    /\ UNCHANGED <<outputChan, errChan, ctxDone, streamPC, blockIndex, inToolUse, events,
                   nSent, sent, frames, scanPos>>
    /\ UNCHANGED <<rrVars, gateVars, snoopVars, proxyVars, convVars, recVars, upVars,
                   peekVars, procVars, hdrVars>>

NextFrames ==
    \/ \E ok \in BOOLEAN : ProviderConnect(ok)
    \/ ScanLine
    \/ ScanStops
    \/ ProviderCloseErrChan
    \/ ProviderCloseOutputChan
    \/ HandlerStep
    \/ ClientDisconnect

SpecFrames == InitFrames /\ [][NextFrames]_vars

\* the chunks of the well-formed frames of the body from line i on, up to [DONE]
RECURSIVE UsableFrom(_, _)
UsableFrom(body, i) ==
    IF i > Len(body) \/ body[i].kind = "done" THEN << >>
    ELSE IF body[i].kind = "data" THEN <<body[i].chunk>> \o UsableFrom(body, i + 1)
    ELSE UsableFrom(body, i + 1)

\* C29: a data line that does not decode is dropped and never ends the
\* stream: the well-formed frames before and after it are all emitted in
\* order, and with no usable frame the client stream still ends with its
\* closing events and empty content.
C29_BadFramesDropped ==
    (streamPC = "returned" /\ ~ctxDone /\ provErr = "nil")
        => /\ sent = UsableFrom(frames, 1)
           /\ events = <<Ev("message_start", 0, ""), Ev("content_block_start", 0, "text")>>
                          \o TranslateFrom(sent, 1, Len(sent), 0, FALSE)
                          \o <<Ev("content_block_stop", blockIndex, ""),
                               Ev("message_delta", 0, "end_turn"),
                               Ev("message_stop", 0, "")>>

\* ------------------------------------------------------------------------
\* The system field on the Anthropic fast path
\* ------------------------------------------------------------------------
\* the client's system field is a list whose blocks are all text blocks
SystemIsTextList ==
    /\ "system" \in DOMAIN Unmarshal(pxBody)
    /\ Unmarshal(pxBody)["system"].t = "list"
    /\ Unmarshal(pxBody)["system"].items # << >>
    /\ \A i \in 1..Len(Unmarshal(pxBody)["system"].items) :
          Unmarshal(pxBody)["system"].items[i].hasText

RECURSIVE BlockTexts(_)
BlockTexts(bs) == IF bs = << >> THEN << >> ELSE Head(bs).text \o BlockTexts(Tail(bs))

IsNotSpace(c) == c \notin Space
NoSpace(cs) == SelectSeq(cs, IsNotSpace)

\* C30: every request that takes the Anthropic fast path with a system field
\* that is a list of text blocks is sent upstream with system as a single
\* string made of the blocks' texts (up to the white space that joins them),
\* whether or not the Service has a target_model override.
C30_SystemFlattened ==
    (pxPC = "proxied" /\ pxIngress = "anthropic" /\ SystemIsTextList)
        => /\ "system" \in DOMAIN Unmarshal(pxOut.body)
           /\ Unmarshal(pxOut.body)["system"].t = "str"
           /\ NoSpace(Unmarshal(pxOut.body)["system"].s)
                 = NoSpace(BlockTexts(Unmarshal(pxBody)["system"].items))

\* the same, for the Services whose target_model differs from their name
C30_FlattenedWithOverride ==
    (pxPC = "proxied" /\ pxIngress = "anthropic" /\ SystemIsTextList /\ Overrides(pxSvc))
        => /\ "system" \in DOMAIN Unmarshal(pxOut.body)
           /\ Unmarshal(pxOut.body)["system"].t = "str"
           /\ NoSpace(Unmarshal(pxOut.body)["system"].s)
                 = NoSpace(BlockTexts(Unmarshal(pxBody)["system"].items))

\* ------------------------------------------------------------------------
\* The frames of a slow-path chat stream
\* ------------------------------------------------------------------------
\* one data frame per chunk the provider sent, in order, then data: [DONE]
DoneFrames == [i \in 1..Len(sent) |-> DataEvent(sent[i])] \o <<Ev("data", 0, "[DONE]")>>

\* the handler leaves c.Stream while the client is still connected
ChatEnds == streamPC = "chat" /\ streamPC' = "returned" /\ ~ctxDone

\* C31: whenever the gateway ends a slow-path chat stream while the client
\* is still connected, on normal upstream completion and on a provider error
\* alike, the frames written are one data frame per canonical chunk in order
\* followed by data: [DONE], which is the last frame and written exactly once.
C31_DoneTerminates == [][ChatEnds => events' = DoneFrames']_vars

\* the same, for the streams whose provider returned without an error
C31_DoneAfterCompletion == [][(ChatEnds /\ provErr # "err") => events' = DoneFrames']_vars

\* ------------------------------------------------------------------------
\* Anthropic-in conversion of user messages with mixed blocks
\* ------------------------------------------------------------------------
\* role and tool_call_id of an emitted message
Emitted(role, id) == [Role |-> role, ToolCallID |-> id]

\* the messages the blocks of one user message call for: one role=tool
\* message per tool_result, one role=user message for the text gathered
\* before it, and one role=user message for the text after the last one
RECURSIVE ExpectedFrom(_, _)
ExpectedFrom(blocks, pendingText) ==
    IF blocks = << >> THEN (IF pendingText THEN <<Emitted("user", "")>> ELSE << >>)
    ELSE IF Head(blocks).type = "text" THEN ExpectedFrom(Tail(blocks), TRUE)
    ELSE IF Head(blocks).type = "tool_result"
    THEN (IF pendingText THEN <<Emitted("user", "")>> ELSE << >>)
         \o <<Emitted("tool", Head(blocks).tool_use_id)>>
         \o ExpectedFrom(Tail(blocks), FALSE)
    ELSE ExpectedFrom(Tail(blocks), pendingText)

RECURSIVE ExpectedOf(_)
ExpectedOf(ms) ==
    IF ms = << >> THEN << >>
    ELSE ExpectedFrom(Head(ms).Content.blocks, FALSE) \o ExpectedOf(Tail(ms))

\* a request of user messages with block lists and no system prompt
MixedUserRequest ==
    /\ cvAnth.System = NilContent
    /\ \A i \in 1..Len(cvAnth.Messages) :
          /\ cvAnth.Messages[i].Role = "user"
          /\ cvAnth.Messages[i].Content.kind = "[]interface{}"
          /\ cvAnth.Messages[i].Content.blocks # << >>

AnthropicInDone == cvPC = "done" /\ cvVia = "AnthropicMessagesHandler"

\* C32: in the Anthropic-in conversion of user messages with mixed blocks,
\* each tool_result block yields exactly one role=tool message with
\* tool_call_id = tool_use_id, the text before a tool_result is one role=user
\* message placed before it, the text after the last tool_result is one
\* role=user message after it, and the emitted messages follow the block order.
C32_MixedBlocksOrder ==
    (AnthropicInDone /\ MixedUserRequest)
        => [i \in 1..Len(cvCanon) |-> Emitted(cvCanon[i].Role, cvCanon[i].ToolCallID)]
              = ExpectedOf(cvAnth.Messages)

\* text, tool_result, text in one user message has been converted
C32_Witness ==
    /\ AnthropicInDone /\ MixedUserRequest
    /\ \E i \in 1..Len(cvAnth.Messages) :
          LET bs == cvAnth.Messages[i].Content.blocks IN
            Len(bs) = 3 /\ bs[1].type = "text" /\ bs[2].type = "tool_result"
                       /\ bs[3].type = "text"
    /\ \E j \in 2..(Len(cvCanon) - 1) :
          /\ cvCanon[j].Role = "tool"
          /\ cvCanon[j - 1].Role = "user" /\ cvCanon[j - 1].Content = <<"a">>
          /\ cvCanon[j + 1].Role = "user" /\ cvCanon[j + 1].Content = <<"b">>

\* ------------------------------------------------------------------------
\* Fast path: the headers of the outbound request
\* ------------------------------------------------------------------------
\* a header value: a scheme word ("Bearer") and the rest; NoHeader is absent
HeaderValue(scheme, value) == [scheme |-> scheme, tok |-> value]

HeaderNames ==
    {"Authorization", "x-api-key", "anthropic-version", "User-Agent", "Origin", "Referer",
     "Cookie", "Accept-Encoding", "X-Forwarded-For"}

\* credentials a client presents: two active API keys, a session token and
\* one that is neither
ClientCredentials == {"sk-1", "sk-2", "jwt-1", "bad"}
ActiveKeys == {"sk-1", "sk-2"}
ValidTokens == {"jwt-1"}
UpstreamKeys == {"up-1", "up-2"}
CredentialHeaders == {"Authorization", "x-api-key"}

\* the headers of a client request that presents cred in the header at
\* Either alone, with or without what a browser adds, its own
\* anthropic-version and its own User-Agent
ClientHeaders(at, cred, browser, version, agent) ==
    [h \in HeaderNames |->
        CASE h = "Authorization" /\ at = "Authorization" -> HeaderValue("Bearer", cred)
          [] h = "x-api-key" /\ at = "x-api-key" -> HeaderValue("", cred)
          [] h = "anthropic-version" /\ version -> HeaderValue("", "2023-01-01")
          [] h = "User-Agent" /\ agent -> HeaderValue("", "curl")
          [] h \in {"Origin", "Referer", "Cookie", "Accept-Encoding", "X-Forwarded-For"}
                /\ browser -> HeaderValue("", "b")
          [] OTHER -> NoHeader]

\* AuthMiddleware on a /v1 path: a Bearer token that parses, else the API
\* key of x-api-key or, when that is empty, of the Bearer header
Authenticated(headers) ==
    LET authHeader == headers["Authorization"]
        apiKey == IF headers["x-api-key"] # NoHeader THEN headers["x-api-key"].tok
                  ELSE IF authHeader.scheme = "Bearer" THEN authHeader.tok ELSE ""
    IN  \/ authHeader.scheme = "Bearer" /\ authHeader.tok \in ValidTokens
        \/ apiKey \in ActiveKeys

\* proxy.Director: the sanitised and overwritten headers of the outbound request
Director(headers, protocol, apiKey) ==
    [h \in HeaderNames |->
        CASE h \in {"Origin", "Referer", "Cookie", "Accept-Encoding", "X-Forwarded-For"}
                -> NoHeader
          [] h = "User-Agent" -> HeaderValue("", "Mozilla/5.0")
          [] h = "Authorization" /\ protocol = "openai" -> HeaderValue("Bearer", apiKey)
          [] h = "x-api-key" /\ protocol = "anthropic" -> HeaderValue("", apiKey)
          [] h = "anthropic-version" /\ protocol = "anthropic" -> HeaderValue("", "2023-06-01")
          [] OTHER -> headers[h]]

\* two requests that differ only in the credential value, to one Service
InitHeaders ==
    /\ hdPC = [i \in 1..2 |-> "start"]
    /\ \E at \in CredentialHeaders, browser \in BOOLEAN, version \in BOOLEAN, agent \in BOOLEAN :
         \E c1 \in ClientCredentials, c2 \in ClientCredentials :
            hdClient = <<ClientHeaders(at, c1, browser, version, agent),
                         ClientHeaders(at, c2, browser, version, agent)>>
    /\ hdProtocol \in {"openai", "anthropic"}
    /\ hdKey \in UpstreamKeys
    /\ hdUp = [i \in 1..2 |-> [h \in HeaderNames |-> NoHeader]]
    /\ IdleRR /\ IdleGate /\ IdleSSE /\ IdleSnoop /\ IdleProxy
    /\ IdleConv /\ IdleRec /\ IdleUp /\ IdlePeek /\ IdleProc /\ IdleScan

\* AuthMiddleware aborts with 401
Unauthorized(i) ==
    /\ hdPC[i] = "start"
    /\ ~Authenticated(hdClient[i])
    /\ hdPC' = [hdPC EXCEPT ![i] = "401"]
    /\ UNCHANGED <<hdClient, hdProtocol, hdKey, hdUp>>
    /\ UNCHANGED <<rrVars, gateVars, sseVars, snoopVars, proxyVars, convVars, recVars,
                   upVars, peekVars, procVars, scanVars>>

\* the request is admitted and handleReverseProxy serves it
FastPathProxy(i) ==
    /\ hdPC[i] = "start"
    /\ Authenticated(hdClient[i])
    /\ hdPC' = [hdPC EXCEPT ![i] = "proxied"]
    /\ hdUp' = [hdUp EXCEPT ![i] = Director(hdClient[i], hdProtocol, hdKey)]
    /\ UNCHANGED <<hdClient, hdProtocol, hdKey>>
    /\ UNCHANGED <<rrVars, gateVars, sseVars, snoopVars, proxyVars, convVars, recVars,
                   upVars, peekVars, procVars, scanVars>>

NextHeaders == \E i \in 1..2 : Unauthorized(i) \/ FastPathProxy(i)

SpecHeaders == InitHeaders /\ [][NextHeaders]_vars

\* the credential request i presented
Presented(i) ==
    IF hdClient[i]["x-api-key"] # NoHeader THEN hdClient[i]["x-api-key"].tok
    ELSE hdClient[i]["Authorization"].tok

BothProxied == hdPC[1] = "proxied" /\ hdPC[2] = "proxied"

\* C33: two fast-path requests that differ only in the credential value the
\* client presented produce identical upstream requests, and the client's
\* credential appears in no upstream header.
C33_CredentialNotForwarded ==
    BothProxied
        => /\ hdUp[1] = hdUp[2]
           /\ \A i \in 1..2, h \in HeaderNames : hdUp[i][h].tok # Presented(i)

\* the header the client used is the one the Director overwrites
OverwrittenHeader == IF hdProtocol = "openai" THEN "Authorization" ELSE "x-api-key"

\* the same, for credentials presented in the header the Director overwrites
C33_OverwrittenCredential ==
    (BothProxied /\ hdClient[1][OverwrittenHeader] # NoHeader)
        => /\ hdUp[1] = hdUp[2]
           /\ \A i \in 1..2, h \in HeaderNames : hdUp[i][h].tok # Presented(i)

\* ------------------------------------------------------------------------
\* Admission of concurrent requests of one principal against its quota
\* ------------------------------------------------------------------------
\* the quota of the role=user principal with id 1
PrincipalQuota == QuotaLimit

\* the row AuthMiddleware loads with the API key (Preload("User"))
PrincipalRow ==
    [ID |-> 1, Role |-> RoleUser, Quota |-> PrincipalQuota, UsedAmount |-> usedAmount]

\* requests of the principal that have not reached AuthMiddleware yet
InitQuota ==
    /\ calls \in [1..MaxCalls -> {[NewCall(i, 1) EXCEPT !.pc = "arrive"] : i \in Ingresses}]
    /\ usedAmount = 0
    /\ recordQueue = {}
    /\ requestLogs = {}
    /\ IdleRR /\ IdleGate /\ IdleSSE /\ IdleSnoop /\ IdleProxy /\ IdleConv /\ IdleUp /\ IdlePeek /\ IdleProc /\ IdleScan /\ IdleHdr

\* AuthMiddleware with the principal's API key: 403 when used_amount has
\* reached the quota, else c.Next() enters the handler
Admission(r) ==
    /\ calls[r].pc = "arrive"
    /\ calls' = [calls EXCEPT ![r].pc = IF QuotaExceeded(PrincipalRow) THEN "403" ELSE "peek"]
    /\ UNCHANGED <<usedAmount, recordQueue, requestLogs>>
    /\ UNCHANGED <<rrVars, gateVars, sseVars, snoopVars, proxyVars, convVars, upVars, peekVars, procVars, scanVars, hdrVars>>

NextQuota == (\E r \in DOMAIN calls : Admission(r)) \/ NextRec

SpecQuota == InitQuota /\ [][NextQuota]_vars

\* admitted requests whose recorder has not run yet
InFlight == {r \in DOMAIN calls : calls[r].pc \notin {"arrive", "403", "done"}}

RECURSIVE CountedIn(_)
CountedIn(rs) ==
    IF rs = {} THEN 0
    ELSE LET r == CHOOSE x \in rs : TRUE IN
         calls[r].tokensIn + calls[r].tokensOut + CountedIn(rs \ {r})

\* the tokens of the requests already admitted: those added to used_amount
\* and those counted so far by the requests still running
AdmittedTokens == usedAmount + CountedIn(InFlight)

Admitted(r) == calls[r].pc = "arrive" /\ calls'[r].pc = "peek"

\* C34: for a role=user principal with quota >= 0 authenticating by API key,
\* once the tokens of the requests already admitted reach the quota no
\* further request of the principal is admitted, also when the earlier
\* requests have not finished and been added to used_amount.
C34_QuotaUnderConcurrency ==
    [][\A r \in DOMAIN calls : Admitted(r) => AdmittedTokens < PrincipalQuota]_vars

\* the same, for a request that arrives while no other is running
C34_QuotaSequential ==
    [][\A r \in DOMAIN calls :
          (Admitted(r) /\ InFlight = {}) => AdmittedTokens < PrincipalQuota]_vars

\* ------------------------------------------------------------------------
\* Round-robin position across a reconfiguration
\* ------------------------------------------------------------------------
\* request r takes a key from a non-empty pool in this step
TakesKey(r) == req[r].pc = "found" /\ req'[r].pc = "selected" /\ req'[r].after > 0

\* the Services of the replaced set with the name and key pool of the
\* Service request r resolved in the current set
Predecessors(r) ==
    { i \in 1..Len(arrays[1]) :
         /\ req[r].entry.arr = 2
         /\ arrays[1][i].Name = Deref(req[r].entry).Name
         /\ arrays[1][i].APIKeys = Deref(req[r].entry).APIKeys }

\* C35: after UpdateServicesHandler replaces the Service set, a Service whose
\* name and key pool are unchanged continues its key rotation from where it
\* was: a selection that follows n earlier selections of that Service,
\* before or after the swap, returns pool[n mod K].
C35_RotationSurvivesSwap ==
    [][\A r \in 1..MaxReqs :
          TakesKey(r) =>
             \A i \in Predecessors(r) :
                req'[r].idx = (arrays[1][i].keyCounter + Deref(req[r].entry).keyCounter)
                                 % Len(Deref(req[r].entry).APIKeys)]_vars

\* the same, when the replaced Service stood at the start of its pool
C35_RotationFromPoolStart ==
    [][\A r \in 1..MaxReqs :
          TakesKey(r) =>
             \A i \in Predecessors(r) :
                arrays[1][i].keyCounter % Len(Deref(req[r].entry).APIKeys) = 0
                   => req'[r].idx =
                         (arrays[1][i].keyCounter + Deref(req[r].entry).keyCounter)
                            % Len(Deref(req[r].entry).APIKeys)]_vars

\* ------------------------------------------------------------------------
\* The two request builders of the Anthropic provider
\* ------------------------------------------------------------------------
\* C36: for every canonical request ChatCompletion and StreamChatCompletion
\* build the same Anthropic system, messages and tools, and the two upstream
\* request bodies differ only in the stream flag.
C36_SameRequestBothWays ==
    ProviderBuilt =>
       LET plain == ChatCompletionRequest(cvCanon, cvTools)
           streamed == StreamChatCompletionRequest(cvCanon, cvTools)
       IN  /\ cvAnth = (IF cvVia = "ChatCompletion" THEN plain ELSE streamed)
           /\ plain.System = streamed.System
           /\ plain.Messages = streamed.Messages
           /\ plain.Tools = streamed.Tools
           /\ ~plain.Stream /\ streamed.Stream
           /\ [streamed EXCEPT !.Stream = FALSE] = plain

\* a streamed request with tools, a system prompt, and a tool result merged
\* into a user message that was a string
C36_Witness ==
    /\ cvPC = "done" /\ cvVia = "StreamChatCompletion"
    /\ Len(cvTools) = 2 /\ Len(cvAnth.Tools) = 2
    /\ cvAnth.Stream
    /\ cvAnth.System.kind = "string"
    /\ \E m \in 1..Len(cvAnth.Messages) :
          /\ cvAnth.Messages[m].Role = "user"
          /\ Len(cvAnth.Messages[m].Content.blocks) = 2
          /\ cvAnth.Messages[m].Content.blocks[1].type = "text"
          /\ cvAnth.Messages[m].Content.blocks[2].type = "tool_result"

\* ------------------------------------------------------------------------
\* Alternation of roles in the request the Anthropic provider builds
\* ------------------------------------------------------------------------
NoAdjacentUsers(ms) ==
    \A i \in 1..(Len(ms) - 1) : ~(ms[i].Role = "user" /\ ms[i + 1].Role = "user")

\* C37: for any canonical message sequence in which no two adjacent messages
\* both have role=user, the Anthropic request built by the provider contains
\* no two adjacent user messages, also when a role=user message directly
\* follows one or more role=tool messages.
C37_NoAdjacentUserMessages ==
    (ProviderBuilt /\ NoAdjacentUsers(cvCanon)) => NoAdjacentUsers(cvAnth.Messages)

\* no role=user message comes next after a role=user or role=tool message,
\* system messages left aside
NoUserAfterUserOrTool ==
    \A i \in 1..(Len(NonSystem) - 1) :
        ~(NonSystem[i].Role \in {"user", "tool"} /\ NonSystem[i + 1].Role = "user")

\* the same, for the sequences in which no user message follows a tool message
C37_NoAdjacentUsersWithoutToolBefore ==
    (ProviderBuilt /\ NoUserAfterUserOrTool) => NoAdjacentUsers(cvAnth.Messages)

\* ------------------------------------------------------------------------
\* Content blocks of the Anthropic SSE egress
\* ------------------------------------------------------------------------
IsStart(e) == e.ev = "content_block_start"
IsStop(e) == e.ev = "content_block_stop"

\* positions of the content_block_start events before position i
StartsBefore(i) == {j \in 1..(i - 1) : IsStart(events[j])}

\* the index of the block opened last before position i, -1 when there is none
LastOpened(i) ==
    IF StartsBefore(i) = {} THEN -1
    ELSE events[CHOOSE j \in StartsBefore(i) : \A k \in StartsBefore(i) : k <= j].index

\* the block opened last before position i has not been stopped before i
StillOpen(i) ==
    \A j \in 1..(i - 1) : IsStop(events[j]) => events[j].index # LastOpened(i)

BlockStructure ==
    LET n == Len(events)
        starts == SelectSeq(events, IsStart)
        stops == SelectSeq(events, IsStop)
    IN  /\ \A k \in 1..Len(starts) : starts[k].index = k - 1
        /\ \A i \in 1..n :
              events[i].ev \in {"content_block_delta", "content_block_stop"}
                 => events[i].index = LastOpened(i) /\ StillOpen(i)
        /\ \A i \in 1..n : \A j \in 1..n :
              (i < j /\ IsStop(events[i]) /\ IsStop(events[j]))
                 => events[i].index # events[j].index
        /\ streamPC = "stream" => Len(starts) = Len(stops) + 1

\* C38: between message_start and the end of the stream exactly one content
\* block is open; the indices of successive content_block_start events are
\* 0, 1, 2, ...; each index gets one content_block_start and at most one
\* content_block_stop, after the start; and every content_block_delta and
\* content_block_stop carries the index of the single open block.
C38_OneOpenBlock == BlockStructure

\* no text arrives after a tool-call fragment
NoTextAfterTool ==
    \A i \in 1..Len(sent) : \A j \in 1..Len(sent) :
        (i < j /\ sent[i].choices > 0 /\ sent[i].tc.present)
           => ~(sent[j].choices > 0 /\ sent[j].Content # "")

\* the same, for the streams in which no text follows a tool call
C38_OneOpenBlockToolsLast == NoTextAfterTool => BlockStructure

\* ------------------------------------------------------------------------
\* Anthropic-in conversion: no turn is lost
\* ------------------------------------------------------------------------
\* the canonical messages emitted for the Anthropic message m alone
EmittedFor(m) == FromAnthropicMessage(<< >>, m)

\* C39: the Anthropic-in conversion emits at least one canonical message for
\* every Anthropic message of the request, whatever its role and content
\* (string, empty list, or list of blocks of any types).
C39_NoTurnDisappears ==
    AnthropicInDone
        => /\ cvCanon = FromAnthropicRequest(cvAnth)
           /\ \A i \in 1..Len(cvAnth.Messages) : Len(EmittedFor(cvAnth.Messages[i])) >= 1
           /\ Len(NonSystem) >= Len(cvAnth.Messages)

\* the message has a string or an empty list as content, or a text or
\* tool_result block, or it is an assistant message with a tool_use block
HasTextOrResult(m) ==
    \/ m.Content.kind = "string"
    \/ m.Content.blocks = << >>
    \/ \E b \in 1..Len(m.Content.blocks) :
          \/ m.Content.blocks[b].type \in {"text", "tool_result"}
          \/ m.Content.blocks[b].type = "tool_use" /\ m.Role = "assistant"

\* the same, for requests whose every message has such content
C39_NoTurnDisappearsWithText ==
    (AnthropicInDone /\ \A i \in 1..Len(cvAnth.Messages) : HasTextOrResult(cvAnth.Messages[i]))
        => /\ cvCanon = FromAnthropicRequest(cvAnth)
           /\ \A i \in 1..Len(cvAnth.Messages) : Len(EmittedFor(cvAnth.Messages[i])) >= 1
           /\ Len(NonSystem) >= Len(cvAnth.Messages)
====
